---- MODULE Spec2Model ----
(***************************************************************************)
(* Model of the tariff / tax simulation engine of miaff-backend.           *)
(*                                                                         *)
(*   simulate      src/src/services/simulation.service.ts  (multi-country, *)
(*                 USD -> PEN with an exchange rate)                       *)
(*   simulateUsd   src/src/services/exportacion.service.ts (USD only,      *)
(*                 per-tax toggles)                                        *)
(*   calcularImportacion  src/src/services/importacion.service.ts          *)
(*                                                                         *)
(* Number representation.  The code works on JavaScript numbers; the model *)
(* works on integers with a fixed scale per kind of quantity:              *)
(*   - an amount supplied by the caller (cif, fob, overrides in USD) is in *)
(*     thousandths of the currency unit ("mills"), so that rounding it to  *)
(*     cents does something;                                               *)
(*   - an amount produced by round2 / r2 is in cents;                      *)
(*   - a rate is in 1/10000 (0.035 is 350), an exchange rate in 1/100;     *)
(*   - a quantity is in tenths of a unit.                                  *)
(* round2 is the decimal round-half-up (towards +infinity) that            *)
(* Math.round((n + Number.EPSILON) * 100) / 100 computes; binary floating  *)
(* point noise is not modelled.                                            *)
(* An optional field (TypeScript `x?: T`, `T | null`) is a sequence of     *)
(* length 0 (absent, undefined or null) or 1 (present).                    *)
(***************************************************************************)
EXTENDS Integers, Sequences, FiniteSets, TLC

VARIABLES variant,    \* which entry point is being called
          input,      \* the operation input of the call
          prof,       \* the rule profile of the call
          overrides,  \* the overrides / toggles of the call
          result,     \* the call's outcome: pending, ok (with the result) or error
          log,        \* the calls completed so far: arguments before and after, result
          store,      \* the database: the tables the call reads, and CURRENT_DATE
          queries,    \* the tables the call has queried so far, in order
          procs       \* the HTTP requests in flight: position, locals, responses

vars == <<variant, input, prof, overrides, result, log, store, queries, procs>>

\* ---------------------------------------------------------------- helpers

Absent == <<>>
Some(v) == <<v>>
IsPresent(x) == Len(x) = 1
\* JavaScript `x ?? d`
OrElse(x, d) == IF IsPresent(x) THEN x[1] ELSE d

\* Mutant: the fraction of a cent dropped instead of rounded.
round2_Truncates(num, den) == num \div den

\* round2(n) for the real number num/den expressed in cents (den is 1 or an
\* even scale factor): the nearest integer, a half rounded up.
round2(num, den) == IF den = 1 THEN num ELSE (num + den \div 2) \div den

RECURSIVE SumAmounts(_)
SumAmounts(items) ==
  IF items = <<>> THEN 0 ELSE items[1].amount + SumAmounts(Tail(items))

\* Array.prototype.find over a sequence: the first element, in list order,
\* whose index is in `hits`, as a 0/1-length sequence.
FindFirst(s, hits) ==
  IF hits = {} THEN Absent
  ELSE Some(s[CHOOSE i \in hits : \A j \in hits : i <= j])

\* ------------------------------------------------- simulation.service.ts

\* Mutant: the last matching band instead of the first.
pickIscSpecificFromBands_LastMatch(params, alcoholDegree) ==
  IF ~IsPresent(params) THEN Absent
  ELSE LET deg == OrElse(alcoholDegree, 0)
           bands == params[1]
           hits == {i \in 1..Len(bands) :
                      IsPresent(bands[i].max_abv) /\ deg <= bands[i].max_abv[1]}
       IN IF hits = {} THEN Absent
          ELSE bands[CHOOSE i \in hits : \A j \in hits : j <= i].specific_per_l_pen

\* The per-unit specific amount of the first band, in list order, whose
\* max_abv is a number >= the alcohol strength (0 when none is supplied);
\* null when params has no band list, no band matches, or the band has no
\* numeric amount.
pickIscSpecificFromBands(params, alcoholDegree) ==
  IF ~IsPresent(params) THEN Absent
  ELSE LET deg == OrElse(alcoholDegree, 0)
           bands == params[1]
           Matches(b) == IsPresent(b.max_abv) /\ deg <= b.max_abv[1]
           band == FindFirst(bands, {i \in 1..Len(bands) : Matches(bands[i])})
       IN IF ~IsPresent(band) THEN Absent
          ELSE band[1].specific_per_l_pen

\* Mutant: the used-goods rule tested before the first-import rule.
defaultPerception_UsedFirst(profile, isUsed) ==
  IF profile \in {"public", "amazon"}
    THEN [rate |-> 0, rule |-> "Excluido por regimen especial"]
  ELSE IF isUsed
    THEN [rate |-> 500, rule |-> "Bien usado"]
  ELSE IF profile \in {"first_import", "no_habido"}
    THEN [rate |-> 1000, rule |-> "Primera importacion/No habido"]
  ELSE [rate |-> 350, rule |-> "Regimen general"]

defaultPerception(profile, isUsed) ==
  IF profile \in {"public", "amazon"}
    THEN [rate |-> 0, rule |-> "Excluido por regimen especial"]
  ELSE IF profile \in {"first_import", "no_habido"}
    THEN [rate |-> 1000, rule |-> "Primera importacion/No habido"]
  ELSE IF isUsed
    THEN [rate |-> 500, rule |-> "Bien usado"]
  ELSE [rate |-> 350, rule |-> "Regimen general"]

InvalidInput == [status |-> "error", error |-> "InvalidInput"]

\* One trade-remedy item per rule-profile entry (source db).
RemedyItemsDb(in, p, cifPEN) ==
  [i \in 1..Len(p.tradeRemedies) |->
     LET r == p.tradeRemedies[i]
     IN [type |-> r.type, mode |-> r.mode, source |-> "db",
         amount |-> IF r.mode = "ad_valorem"
                      THEN round2(cifPEN * r.rateOrAmount, 10000)
                      ELSE round2(OrElse(in.quantity, 0) * r.rateOrAmount, 10)]]

\* Mutant: the override amounts kept in USD, not converted to PEN.
RemedyItemsOverride_KeepsUsd(in, o) ==
  (IF IsPresent(o.antidumpingUsd) /\ o.antidumpingUsd[1] # 0 /\ o.antidumpingUsd[1] > 0
     THEN <<[type |-> "AD", mode |-> "specific", source |-> "override",
             amount |-> round2(o.antidumpingUsd[1], 10)]>>
     ELSE <<>>)
  \o
  (IF IsPresent(o.countervailingUsd) /\ o.countervailingUsd[1] # 0 /\ o.countervailingUsd[1] > 0
     THEN <<[type |-> "CVD", mode |-> "specific", source |-> "override",
             amount |-> round2(o.countervailingUsd[1], 10)]>>
     ELSE <<>>)

\* The items added for the antidumping / countervailing overrides (USD -> PEN).
RemedyItemsOverride(in, o) ==
  (IF IsPresent(o.antidumpingUsd) /\ o.antidumpingUsd[1] # 0 /\ o.antidumpingUsd[1] > 0
     THEN <<[type |-> "AD", mode |-> "specific", source |-> "override",
             amount |-> round2(o.antidumpingUsd[1] * in.fxRate[1], 1000)]>>
     ELSE <<>>)
  \o
  (IF IsPresent(o.countervailingUsd) /\ o.countervailingUsd[1] # 0 /\ o.countervailingUsd[1] > 0
     THEN <<[type |-> "CVD", mode |-> "specific", source |-> "override",
             amount |-> round2(o.countervailingUsd[1] * in.fxRate[1], 1000)]>>
     ELSE <<>>)

\* Mutant: the two components of a mixed excise summed at full precision and
\* rounded once.
MixedIsc_RoundsOnce(qty, perUnit, base, adRate) ==
  LET espec == round2(qty * perUnit, 10)
      adv == round2(base * adRate, 10000)
  IN [espec |-> espec, adv |-> adv,
      total |-> round2(qty * perUnit * 1000 + base * adRate, 10000)]

\* Mixed excise: the specific and the ad-valorem component, each rounded to
\* cents, and their sum.
MixedIsc(qty, perUnit, base, adRate) ==
  LET espec == round2(qty * perUnit, 10)
      adv == round2(base * adRate, 10000)
  IN [espec |-> espec, adv |-> adv, total |-> espec + adv]

\* The excise stage: [mode, total, specific, ad_val].
IscStage(in, p, cifPEN, dArancel) ==
  LET none == [mode |-> "none", total |-> 0, specific |-> 0, ad_val |-> 0, perUnit |-> 0]
  IN IF ~IsPresent(p.iscRule) THEN none
     ELSE LET rule == p.iscRule[1]
              baseISC == cifPEN + dArancel
          IN IF rule.system = "ad_valorem" THEN
               LET amount == round2(baseISC * OrElse(rule.adValRate, 0), 10000)
               IN [mode |-> "ad_valorem", total |-> amount, specific |-> 0,
                   ad_val |-> amount, perUnit |-> 0]
             ELSE IF rule.system = "especifico" THEN
               LET perUnit == OrElse(rule.specificAmount, 0)
                   amount == round2(OrElse(in.quantity, 0) * perUnit, 10)
               IN [mode |-> "especifico", total |-> amount, specific |-> amount,
                   ad_val |-> 0, perUnit |-> perUnit]
             ELSE IF rule.system = "mixed" THEN
               LET bandPerUnit == pickIscSpecificFromBands(rule.params, in.alcoholDegree)
                   perUnit == OrElse(bandPerUnit, OrElse(rule.specificAmount, 0))
                   m == MixedIsc(OrElse(in.quantity, 0), perUnit, cifPEN + dArancel,
                                 OrElse(rule.adValRate, 0))
               IN [mode |-> "mixed", total |-> m.total, specific |-> m.espec,
                   ad_val |-> m.adv, perUnit |-> perUnit]
             ELSE none

\* The customs value in USD (mills): cif ?? (fob ?? 0) + (freight ?? 0) + (insurance ?? 0)
CifUsdOf(in) ==
  IF IsPresent(in.cif) THEN in.cif[1]
  ELSE OrElse(in.fob, 0) + OrElse(in.freight, 0) + OrElse(in.insurance, 0)

\* The input check of simulate: `!cifUSD || !input.fxRate`.
RejectsInput(in) ==
  CifUsdOf(in) = 0 \/ ~IsPresent(in.fxRate) \/ in.fxRate[1] = 0

\* Mutant: the override tested for truthiness, so that a rate of 0 is ignored.
DutyRate_TruthyOverride(in, p, o) ==
  LET ftaUsable == in.useFTA /\ IsPresent(p.ftaRate)
      advalRate == IF ftaUsable
                     THEN (IF p.mfnRate <= p.ftaRate[1] THEN p.mfnRate ELSE p.ftaRate[1])
                     ELSE p.mfnRate
  IN IF IsPresent(o.adValoremRate) /\ o.adValoremRate[1] # 0
       THEN [rate |-> o.adValoremRate[1],
             notes |-> << <<"Arancel ad-valorem tomado de overrides.">> >>]
     ELSE IF ftaUsable /\ p.ftaRate[1] < p.mfnRate
       THEN [rate |-> advalRate,
             notes |-> << <<"Se aplico preferencia arancelaria (TLC).">> >>]
     ELSE [rate |-> advalRate, notes |-> <<>>]

\* The applied duty rate and the note recorded with it.
DutyRate(in, p, o) ==
  LET ftaUsable == in.useFTA /\ IsPresent(p.ftaRate)
      advalRate == IF ftaUsable
                     THEN (IF p.mfnRate <= p.ftaRate[1] THEN p.mfnRate ELSE p.ftaRate[1])
                     ELSE p.mfnRate
  IN IF IsPresent(o.adValoremRate)
       THEN [rate |-> o.adValoremRate[1],
             notes |-> << <<"Arancel ad-valorem tomado de overrides.">> >>]
     ELSE IF ftaUsable /\ p.ftaRate[1] < p.mfnRate
       THEN [rate |-> advalRate,
             notes |-> << <<"Se aplico preferencia arancelaria (TLC).">> >>]
     ELSE [rate |-> advalRate, notes |-> <<>>]

\* Mutant: the exemption zeroes IGV only, IPM is still charged.
VatStage_ExemptKeepsIpm(p, igvBase) ==
  LET igv16 == IF p.vatExempt THEN 0 ELSE round2(igvBase * 1600, 10000)
      ipm2 == round2(igvBase * 200, 10000)
  IN [igv16 |-> igv16, ipm2 |-> ipm2, total |-> round2(igv16 + ipm2, 1),
      notes |-> IF p.vatExempt
                  THEN << <<"Subpartida exonerada de IGV/IPM vigente.">> >>
                  ELSE <<>>]

\* IGV (16%) and IPM (2%) on igvBase, zero for a VAT-exempt line.
VatStage(p, igvBase) ==
  LET igv16 == IF p.vatExempt THEN 0 ELSE round2(igvBase * 1600, 10000)
      ipm2 == IF p.vatExempt THEN 0 ELSE round2(igvBase * 200, 10000)
  IN [igv16 |-> igv16, ipm2 |-> ipm2, total |-> round2(igv16 + ipm2, 1),
      notes |-> IF p.vatExempt
                  THEN << <<"Subpartida exonerada de IGV/IPM vigente.">> >>
                  ELSE <<>>]

\* Mutant: the perception base leaves the trade remedies out.
PerceptionStage_NoRemedies(in, o, igvBase, igv16, ipm2, adcvdTotal) ==
  LET percDefault == defaultPerception(in.importerProfile, in.isUsed)
      percRate == IF IsPresent(o.perceptionRate) THEN o.perceptionRate[1]
                  ELSE percDefault.rate
      percRule == IF IsPresent(o.perceptionRate)
                    THEN (IF percRate = 0 THEN "Percepcion override: 0%"
                          ELSE "Percepcion override")
                    ELSE percDefault.rule
      percepBase == round2(igvBase + igv16 + ipm2, 1)
  IN [rate |-> percRate, base |-> percepBase,
      amount |-> round2(percepBase * percRate, 10000), rule |-> percRule]

\* Mutant: the perception amount computed with the wrong sign.
PerceptionStage_Negated(in, o, igvBase, igv16, ipm2, adcvdTotal) ==
  LET percDefault == defaultPerception(in.importerProfile, in.isUsed)
      percRate == IF IsPresent(o.perceptionRate) THEN o.perceptionRate[1]
                  ELSE percDefault.rate
      percRule == IF IsPresent(o.perceptionRate)
                    THEN (IF percRate = 0 THEN "Percepcion override: 0%"
                          ELSE "Percepcion override")
                    ELSE percDefault.rule
      percepBase == round2(igvBase + igv16 + ipm2 + adcvdTotal, 1)
  IN [rate |-> percRate, base |-> percepBase,
      amount |-> round2(0 - percepBase * percRate, 10000), rule |-> percRule]

\* Perception: rate and rule (default or override), base and amount.
PerceptionStage(in, o, igvBase, igv16, ipm2, adcvdTotal) ==
  LET percDefault == defaultPerception(in.importerProfile, in.isUsed)
      percRate == IF IsPresent(o.perceptionRate) THEN o.perceptionRate[1]
                  ELSE percDefault.rate
      percRule == IF IsPresent(o.perceptionRate)
                    THEN (IF percRate = 0 THEN "Percepcion override: 0%"
                          ELSE "Percepcion override")
                    ELSE percDefault.rule
      percepBase == round2(igvBase + igv16 + ipm2 + adcvdTotal, 1)
  IN [rate |-> percRate, base |-> percepBase,
      amount |-> round2(percepBase * percRate, 10000), rule |-> percRule]

\* Mutant: the override tested for truthiness, so that an override of 0 falls
\* back to the UIT rule.
SdaStage_TruthyOverride(in, p, o, cifPEN) ==
  IF IsPresent(o.sdaUsd) /\ o.sdaUsd[1] # 0
    THEN [applies |-> o.sdaUsd[1] > 0,
          amount |-> round2(o.sdaUsd[1] * in.fxRate[1], 1000)]
    ELSE LET sdaApplies == cifPEN > p.adminFees.uit * p.adminFees.thresholdUIT
         IN [applies |-> sdaApplies,
             amount |-> IF sdaApplies
                          THEN round2(p.adminFees.uit * p.adminFees.sdaRate, 10000)
                          ELSE 0]

\* The special customs fee (SDA): the override, or the UIT rule.
SdaStage(in, p, o, cifPEN) ==
  IF IsPresent(o.sdaUsd)
    THEN [applies |-> o.sdaUsd[1] > 0,
          amount |-> round2(o.sdaUsd[1] * in.fxRate[1], 1000)]
    ELSE LET sdaApplies == cifPEN > p.adminFees.uit * p.adminFees.thresholdUIT
         IN [applies |-> sdaApplies,
             amount |-> IF sdaApplies
                          THEN round2(p.adminFees.uit * p.adminFees.sdaRate, 10000)
                          ELSE 0]

\* Mutant: the special customs fee left out of the customs debt.
Deuda_DropsSda(dArancel, iscTotal, igvTot, adcvdTotal, sdaAmt) ==
  round2(dArancel + iscTotal + igvTot + adcvdTotal, 1)

\* Mutant: the perception left out of the amount payable at the border.
PagoFrontera_DropsPerception(deuda, percepAmt) == round2(deuda, 1)

\* Totals.
Deuda(dArancel, iscTotal, igvTot, adcvdTotal, sdaAmt) ==
  round2(dArancel + iscTotal + igvTot + adcvdTotal + sdaAmt, 1)

PagoFrontera(deuda, percepAmt) == round2(deuda + percepAmt, 1)

\* `Permiso: <authority>[ - <note>]`, one note per permit.
PermitNotes(p) ==
  [i \in 1..Len(p.permits) |->
     <<"Permiso: ", p.permits[i].authority>> \o
     (IF IsPresent(p.permits[i].note) THEN <<" - ", p.permits[i].note[1]>> ELSE <<>>)]

simulate(in, p, o) ==
  IF RejectsInput(in) THEN InvalidInput
  ELSE
  LET cifPEN == round2(CifUsdOf(in) * in.fxRate[1], 1000)
      duty == DutyRate(in, p, o)
      dArancel == round2(cifPEN * duty.rate, 10000)
      isc == IscStage(in, p, cifPEN, dArancel)
      adcvdItems == RemedyItemsDb(in, p, cifPEN) \o RemedyItemsOverride(in, o)
      adcvdTotal == SumAmounts(adcvdItems)
      igvBase == round2(cifPEN + dArancel + isc.total, 1)
      vat == VatStage(p, igvBase)
      perc == PerceptionStage(in, o, igvBase, vat.igv16, vat.ipm2, adcvdTotal)
      sda == SdaStage(in, p, o, cifPEN)
      deuda == Deuda(dArancel, isc.total, vat.total, adcvdTotal, sda.amount)
      pagoFrontera == PagoFrontera(deuda, perc.amount)
  IN [status |-> "ok",
      cif_pen |-> cifPEN,
      arancel |-> [rate |-> duty.rate, base |-> cifPEN, amount |-> dArancel],
      isc |-> isc,
      trade_remedies |-> [applied |-> Len(adcvdItems) > 0, items |-> adcvdItems,
                          total |-> adcvdTotal],
      igv |-> [base |-> igvBase, igv16 |-> vat.igv16, ipm2 |-> vat.ipm2,
               total |-> vat.total, rate |-> 1800, amount |-> vat.total,
               exempt |-> p.vatExempt],
      percepcion |-> perc,
      sda |-> sda,
      deuda_aduanera |-> deuda,
      pago_en_frontera |-> pagoFrontera,
      notes |-> duty.notes \o vat.notes \o PermitNotes(p)]

\* ------------------------------ simulation.service.ts: loadRuleProfile

(***************************************************************************)
(* A date is <<year, day of the year>>; a tariff code is the sequence of   *)
(* its characters; a table is the set of its rows; a nullable column is a  *)
(* sequence of length 0 (NULL) or 1.  A query without ORDER BY, or whose   *)
(* ORDER BY leaves ties, may return its rows in any of the possible        *)
(* orders: loadRuleProfile is the set of the outcomes a call can have.     *)
(***************************************************************************)
DateLeq(a, b) == a[1] < b[1] \/ (a[1] = b[1] /\ a[2] <= b[2])

\* Date.prototype.getUTCFullYear
UTCFullYear(d) == d[1]

Digits == {"0", "1", "2", "3", "4", "5", "6", "7", "8", "9"}

\* hs10.replace(/\D/g, '') and regexp_replace(hs10, '[^0-9]', '', 'g')
HsNorm(hs10) == LET IsDigit(ch) == ch \in Digits IN SelectSeq(hs10, IsDigit)

NotFound == [status |-> "error", error |-> "NotFound"]
MissingConfig == [status |-> "error", error |-> "MissingConfig"]

\* valid_to IS NULL OR valid_to >= CURRENT_DATE
NotExpired(r, currentDate) ==
  ~IsPresent(r.valid_to) \/ DateLeq(currentDate, r.valid_to[1])

\* ORDER BY valid_from DESC LIMIT 1: a row no other row of the result starts
\* after; no row when the result is empty.
LatestStarted(rows) ==
  IF rows = {} THEN {Absent}
  ELSE {Some(r) : r \in {x \in rows : \A y \in rows : DateLeq(y.valid_from, x.valid_from)}}

\* The orders in which a query without ORDER BY can return the rows.
Orderings(rows) ==
  {q \in [1..Cardinality(rows) -> rows] :
     \A i, j \in DOMAIN q : i # j => q[i] # q[j]}

\* The orders in which a query with ORDER BY valid_from DESC can return the
\* rows: no row comes after one that starts earlier.
OrderingsByValidFromDesc(rows) ==
  {q \in Orderings(rows) :
     \A i, j \in DOMAIN q : i < j => DateLeq(q[j].valid_from, q[i].valid_from)}

\* Mutant: the administrative fees read without the year, any year's row.
AdminFeeRows_AnyYear(st, year) == st.admin_fees

\* SELECT ... FROM miaff.admin_fees WHERE year = $1
AdminFeeRows(st, year) == {a \in st.admin_fees : a.year = year}

\* The rule profile built from the rows the queries returned.
RuleProfileOf(t, fta, isc, vatExempt, remedies, permits, af) ==
  [tariffId |-> t.id,
   hs10 |-> t.hs10,
   mfnRate |-> t.mfn_rate,
   ftaRate |-> IF IsPresent(fta) THEN Some(fta[1].rate) ELSE Absent,
   iscRule |-> IF IsPresent(isc)
                 THEN Some([system |-> isc[1].system,
                            adValRate |-> isc[1].ad_valorem_rate,
                            specificAmount |-> isc[1].specific_amount,
                            params |-> isc[1].params])
                 ELSE Absent,
   vatExempt |-> vatExempt,
   tradeRemedies |-> [i \in DOMAIN remedies |->
                        [type |-> remedies[i].type, mode |-> remedies[i].mode,
                         rateOrAmount |-> remedies[i].rate_or_amount]],
   permits |-> [i \in DOMAIN permits |->
                  [authority |-> permits[i].authority, note |-> permits[i].note]],
   adminFees |-> [uit |-> af.uit_value, sdaRate |-> af.sda_rate_import,
                  thresholdUIT |-> af.threshold_cif_in_uit]]

\* The outcomes of loadRuleProfile(hs10, originCountry, today) on the store st.
loadRuleProfile(hs10, originCountry, today, st) ==
  LET hsNorm == HsNorm(hs10)
      tRows == {t \in st.tariffs : HsNorm(t.hs10) = hsNorm}
      OutcomesFor(t) ==
        LET ftaRows == {r \in st.fta_rates :
                          /\ r.tariff_id = t.id /\ r.country = originCountry
                          /\ NotExpired(r, st.current_date)}
            iscRows == {r \in st.isc_rules :
                          r.tariff_id = t.id /\ NotExpired(r, st.current_date)}
            vatRows == {r \in st.vat_exempt :
                          /\ r.tariff_id = t.id
                          /\ DateLeq(r.valid_from, st.current_date)
                          /\ NotExpired(r, st.current_date)}
            trRows == {r \in st.trade_remedies :
                         /\ r.tariff_id = t.id /\ r.country = originCountry
                         /\ NotExpired(r, st.current_date)}
            pRows == {r \in st.permits_map : r.tariff_id = t.id}
            year == UTCFullYear(today)
            aRows == AdminFeeRows(st, year)
        IN IF aRows = {} THEN {MissingConfig}
           ELSE {[status |-> "ok",
                  profile |-> RuleProfileOf(t, fta, isc, vatRows # {}, trs, ps, af)] :
                   fta \in LatestStarted(ftaRows), isc \in LatestStarted(iscRows),
                   trs \in OrderingsByValidFromDesc(trRows),
                   ps \in Orderings(pRows), af \in aRows}
  IN IF tRows = {} THEN {NotFound}
     ELSE UNION {OutcomesFor(t) : t \in tRows}

\* The tables loadRuleProfile has queried when it returns or throws: it
\* throws NotFound right after the tariff query, MissingConfig after the last.
LoadQueries(outcome) ==
  IF outcome = NotFound THEN <<"tariffs">>
  ELSE <<"tariffs", "fta_rates", "isc_rules", "vat_exempt", "trade_remedies",
         "permits_map", "admin_fees">>

\* ------------------------------------- routes: POST /quote-form

\* JavaScript truthiness of an optional number: present and not 0.
Truthy(x) == IsPresent(x) /\ x[1] # 0

\* formSchema: fxRate positive, and CIF or (FOB + freight + insurance).
FormIsValid(f) ==
  /\ IsPresent(f.fxRate) /\ f.fxRate[1] > 0
  /\ \/ IsPresent(f.cif)
     \/ IsPresent(f.fob) /\ IsPresent(f.freight) /\ IsPresent(f.insurance)

\* The overrides the route passes to simulate: the five fields when one of
\* them is truthy, undefined (no override at all) otherwise.
FormOverrides(f) ==
  IF \/ Truthy(f.override_adValoremRate) \/ Truthy(f.override_antidumpingUsd)
     \/ Truthy(f.override_countervailingUsd) \/ Truthy(f.override_perceptionRate)
     \/ Truthy(f.override_sdaUsd)
    THEN [adValoremRate |-> f.override_adValoremRate,
          antidumpingUsd |-> f.override_antidumpingUsd,
          countervailingUsd |-> f.override_countervailingUsd,
          perceptionRate |-> f.override_perceptionRate,
          sdaUsd |-> f.override_sdaUsd]
  ELSE [adValoremRate |-> Absent, antidumpingUsd |-> Absent,
        countervailingUsd |-> Absent, perceptionRate |-> Absent, sdaUsd |-> Absent]

\* The operation input the route passes to simulate.
FormInput(f) ==
  [fxRate |-> f.fxRate, cif |-> f.cif, fob |-> f.fob, freight |-> f.freight,
   insurance |-> f.insurance, useFTA |-> f.useFTA, quantity |-> f.quantity,
   isUsed |-> f.isUsed, importerProfile |-> f.importerProfile,
   alcoholDegree |-> f.alcoholDegree]

\* 400 'Datos invalidos'
InvalidForm == [status |-> "error", error |-> "InvalidForm"]

\* The responses of POST /quote-form to the form f on the store st: 400 for
\* an invalid form, else the result of simulate on the loaded profile (200)
\* or the error loadRuleProfile or simulate throws (400).
quoteForm(f, st) ==
  IF ~FormIsValid(f) THEN {InvalidForm}
  ELSE {IF loaded.status = "ok"
          THEN simulate(FormInput(f), loaded.profile, FormOverrides(f))
          ELSE loaded :
        loaded \in loadRuleProfile(HsNorm(f.hs10), f.originCountry, st.current_date, st)}

\* ------------------------------------- exportacion.service.ts (USD only)

\* The default perception rate and rule, as the USD-only simulate inlines it.
defPerc(in) ==
  IF in.importerProfile \in {"public", "amazon"}
    THEN [rate |-> 0, rule |-> "Excluido por regimen especial"]
  ELSE IF in.importerProfile \in {"first_import", "no_habido"}
    THEN [rate |-> 1000, rule |-> "Primera importacion/No habido"]
  ELSE IF in.isUsed
    THEN [rate |-> 500, rule |-> "Bien usado"]
  ELSE [rate |-> 350, rule |-> "Regimen general"]

\* The manual antidumping / countervailing amounts, already in USD.
RemedyItemsUsd(o) ==
  (IF IsPresent(o.antidumpingUsd) /\ o.antidumpingUsd[1] # 0
     THEN <<[type |-> "AD", amount |-> round2(o.antidumpingUsd[1], 10)]>>
     ELSE <<>>)
  \o
  (IF IsPresent(o.countervailingUsd) /\ o.countervailingUsd[1] # 0
     THEN <<[type |-> "CVD", amount |-> round2(o.countervailingUsd[1], 10)]>>
     ELSE <<>>)

\* Mutant: the excise rate applied whatever the toggle says.
IscStageUsd_IgnoresToggle(o, cifBase, avAmt) ==
  LET rate == OrElse(o.iscRate, 0)
      baseIsc == round2(cifBase + avAmt, 1)
  IN [applied |-> rate > 0, total |-> round2(baseIsc * rate, 10000),
      details |-> "ISC % sobre (CIF + A/V)"]

\* The excise stage of the USD-only simulate: computed only when iscEnabled.
IscStageUsd(o, cifBase, avAmt) ==
  IF o.iscEnabled
    THEN LET rate == OrElse(o.iscRate, 0)
             baseIsc == round2(cifBase + avAmt, 1)
         IN [applied |-> rate > 0, total |-> round2(baseIsc * rate, 10000),
             details |-> "ISC % sobre (CIF + A/V)"]
    ELSE [applied |-> FALSE, total |-> 0, details |-> "Deshabilitado por el usuario"]

\* Mutant: perception charged whatever the toggle says.
PercStageUsd_IgnoresToggle(in, o, igvBase, igv16, ipm2, remediesTotal) ==
  LET percRate == IF IsPresent(o.perceptionRate) THEN o.perceptionRate[1]
                  ELSE defPerc(in).rate
      percBase == round2(igvBase + igv16 + ipm2 + remediesTotal, 1)
  IN [applied |-> percRate > 0, rate |-> percRate, base |-> percBase,
      amount |-> round2(percBase * percRate, 10000),
      rule |-> IF IsPresent(o.perceptionRate) THEN "Override de percepcion"
               ELSE defPerc(in).rule]

\* The perception stage of the USD-only simulate: computed only when enabled.
PercStageUsd(in, o, igvBase, igv16, ipm2, remediesTotal) ==
  IF o.perceptionEnabled
    THEN LET percRate == IF IsPresent(o.perceptionRate) THEN o.perceptionRate[1]
                         ELSE defPerc(in).rate
             percBase == round2(igvBase + igv16 + ipm2 + remediesTotal, 1)
         IN [applied |-> percRate > 0, rate |-> percRate, base |-> percBase,
             amount |-> round2(percBase * percRate, 10000),
             rule |-> IF IsPresent(o.perceptionRate) THEN "Override de percepcion"
                      ELSE defPerc(in).rule]
    ELSE [applied |-> FALSE, rate |-> 0, base |-> 0, amount |-> 0,
          rule |-> "Deshabilitado por el usuario"]

simulateUsd(in, p, o) ==
  LET cifUsd == CifUsdOf(in)
  IN IF cifUsd = 0 THEN InvalidInput
     ELSE
  LET cifBase == round2(cifUsd, 10)
      avRate == p.adValoremRate
      avAmt == round2(cifBase * avRate, 10000)
      isc == IscStageUsd(o, cifBase, avAmt)
      igvApplies == o.igvEnabled
      igvBase == round2(cifBase + avAmt + isc.total, 1)
      igv16 == IF igvApplies THEN round2(igvBase * p.igvRate, 10000) ELSE 0
      ipm2 == IF igvApplies THEN round2(igvBase * p.ipmRate, 10000) ELSE 0
      igvTot == round2(igv16 + ipm2, 1)
      items == RemedyItemsUsd(o)
      remediesTotal == SumAmounts(items)
      perc == PercStageUsd(in, o, igvBase, igv16, ipm2, remediesTotal)
      sdaApplied == IsPresent(o.sdaUsd) /\ o.sdaUsd[1] > 0
      sdaAmt == IF sdaApplied THEN round2(o.sdaUsd[1], 10) ELSE 0
      deuda == round2(avAmt + isc.total + igvTot + remediesTotal + sdaAmt, 1)
      pagoFrontera == round2(deuda + perc.amount, 1)
  IN [status |-> "ok",
      cif_pen |-> cifBase,
      arancel |-> [rate |-> avRate, base |-> cifBase, amount |-> avAmt],
      isc |-> isc,
      trade_remedies |-> [applied |-> Len(items) > 0, items |-> items,
                          total |-> remediesTotal],
      igv |-> [applied |-> igvApplies, exempt |-> FALSE, base |-> igvBase,
               igv16 |-> igv16, ipm2 |-> ipm2, total |-> igvTot,
               details |-> IF igvApplies THEN "Habilitado"
                           ELSE "Deshabilitado por el usuario"],
      percepcion |-> perc,
      sda |-> [applied |-> sdaApplied, amount |-> sdaAmt],
      deuda_aduanera |-> deuda,
      pago_en_frontera |-> pagoFrontera,
      notes |-> IF igvApplies THEN <<>>
                ELSE << <<"IGV/IPM deshabilitado por el usuario.">> >>]

\* ----------------------------- exportacion.service.ts: AnalisisService

(***************************************************************************)
(* The driver returns a NUMERIC column as a string (monto, valor_venta,    *)
(* valor_cif, dta_total): a row holds the column's value in cents, and     *)
(* what the code does with the string is modelled where it matters.  A     *)
(* JavaScript number of the analysis is in fifteenths of a cent, the unit  *)
(* in which a PEN amount divided by 3.75 is exact: an amount of c cents is *)
(* 15c units when in USD and 4c units when converted from PEN.  A value    *)
(* returned through toFixed(2) is in cents.  A percentage is in hundredths *)
(* of a percent.                                                           *)
(***************************************************************************)
JsNumber(units) == [type |-> "number", units |-> units]
\* a string that is not the text of one number any more is kept as "string"
JsString == [type |-> "string"]

\* JavaScript `a + b`: the sum of two numbers, a concatenation otherwise.
JsPlus(a, b) ==
  IF a.type = "number" /\ b.type = "number" THEN JsNumber(a.units + b.units)
  ELSE JsString

\* c cents of USD, and c cents of PEN divided by 3.75, in units
UsdUnits(c) == 15 * c
PenToUsdUnits(c) == 4 * c

\* parseFloat(n.toFixed(2)): units to the nearest cent (no sum of the units
\* above is half a cent)
ToFixed2(units) == (2 * units + 15) \div 30

\* parseFloat(((num / den) * 100).toFixed(2)), in hundredths of a percent
Percentage(num, den) ==
  LET n == 10000 * num
  IN (n \div den) + (IF 2 * (n % den) >= den THEN 1 ELSE 0)

\* String.prototype.toLowerCase on the classification names of the store
ToLowerCase(name) ==
  CASE name \in {"Operativo", "OPERATIVO", "operativo"} -> "operativo"
    [] name \in {"Administrativo", "administrativo"} -> "administrativo"
    [] name \in {"Ventas", "ventas"} -> "ventas"
    [] name \in {"Financiero", "financiero"} -> "financiero"
    [] name = "Otros" -> "otros"
    [] OTHER -> name

NotFoundOrUnauthorized == [status |-> "error", error |-> "NotFoundOrUnauthorized"]
\* `gastosOperativosTotal.toFixed is not a function`
TypeError == [status |-> "error", error |-> "TypeError"]

\* Mutant: the case looked up by its id alone, whoever owns it.
validarCasoExiste_AnyOwner(casoId, userId, st) ==
  \E c \in st.casos_de_estudio : c.id = casoId

\* SELECT id FROM miaff.casos_de_estudio WHERE id = $1 AND user_id = $2
validarCasoExiste(casoId, userId, st) ==
  \E c \in st.casos_de_estudio : c.id = casoId /\ c.user_id = userId

\* The rows of a case, in the order of the query.
RowsOfCase(rows, casoId) ==
  LET OfCase(r) == r.caso_estudio_id = casoId IN SelectSeq(rows, OfCase)

\* Mutant: the classification name compared as it is written.
obtenerGastosPorClasificacion_CaseSensitive(casoId, st) ==
  LET gastos == RowsOfCase(st.gastos, casoId)
      Is(label) == LET Test(g) == g.clasificacion_nombre = label
                   IN SelectSeq(gastos, Test)
  IN [operativos |-> Is("operativo"), administrativos |-> Is("administrativo"),
      ventas |-> Is("ventas"), financieros |-> Is("financiero")]

\* The expense rows of a case by classification: a row goes to the bucket its
\* lower-cased classification name is the label of, to none otherwise.
obtenerGastosPorClasificacion(casoId, st) ==
  LET gastos == RowsOfCase(st.gastos, casoId)
      Is(label) == LET Test(g) == ToLowerCase(g.clasificacion_nombre) = label
                   IN SelectSeq(gastos, Test)
  IN [operativos |-> Is("operativo"), administrativos |-> Is("administrativo"),
      ventas |-> Is("ventas"), financieros |-> Is("financiero")]

\* exportaciones.reduce: parseFloat(valor_venta), converted to USD
RECURSIVE VentasTotales(_)
VentasTotales(exportaciones) ==
  IF exportaciones = <<>> THEN 0
  ELSE (IF exportaciones[1].moneda = "USD" THEN UsdUnits(exportaciones[1].valor_venta)
        ELSE PenToUsdUnits(exportaciones[1].valor_venta))
       + VentasTotales(Tail(exportaciones))

\* importaciones.reduce: parseFloat(valor_cif) + parseFloat(dta_total)
RECURSIVE CostoAdquisicion(_)
CostoAdquisicion(importaciones) ==
  IF importaciones = <<>> THEN 0
  ELSE UsdUnits(importaciones[1].valor_cif) + UsdUnits(importaciones[1].dta_total)
       + CostoAdquisicion(Tail(importaciones))

calcularUtilidadBruta(exportaciones, importaciones) ==
  LET ventasTotales == VentasTotales(exportaciones)
      costoAdquisicion == CostoAdquisicion(importaciones)
      utilidadBruta == ventasTotales - costoAdquisicion
  IN [ventas_totales |-> ToFixed2(ventasTotales),
      costo_adquisicion |-> ToFixed2(costoAdquisicion),
      utilidad_bruta |-> ToFixed2(utilidadBruta),
      margen_bruto_porcentaje |->
        IF ventasTotales > 0 THEN Percentage(utilidadBruta, ventasTotales) ELSE 0]

\* gastosOperativos.reduce((total, gasto) => total + valor, 0), where valor
\* is gasto.monto itself (a string) for a USD row and gasto.monto / 3.75 (a
\* number) for any other row.
RECURSIVE GastosOperativosTotal(_, _)
GastosOperativosTotal(total, gastosOperativos) ==
  IF gastosOperativos = <<>> THEN total
  ELSE LET gasto == gastosOperativos[1]
           valor == IF gasto.moneda = "USD" THEN JsString
                    ELSE JsNumber(PenToUsdUnits(gasto.monto))
       IN GastosOperativosTotal(JsPlus(total, valor), Tail(gastosOperativos))

\* The operating profit, or the TypeError of calling toFixed on a string.
calcularUtilidadOperativa(utilidadBruta, gastosOperativos) ==
  LET gastosOperativosTotal == GastosOperativosTotal(JsNumber(0), gastosOperativos)
  IN IF gastosOperativosTotal.type # "number" THEN TypeError
     ELSE LET utilidadOperativa ==
                UsdUnits(utilidadBruta.utilidad_bruta) - gastosOperativosTotal.units
          IN [utilidad_bruta |-> utilidadBruta.utilidad_bruta,
              gastos_operativos |-> ToFixed2(gastosOperativosTotal.units),
              utilidad_operativa |-> ToFixed2(utilidadOperativa),
              margen_operativo_porcentaje |->
                IF utilidadBruta.ventas_totales > 0
                  THEN Percentage(utilidadOperativa, UsdUnits(utilidadBruta.ventas_totales))
                  ELSE 0]

\* gastos.reduce: parseFloat(monto), converted to USD
RECURSIVE sumarGastos(_)
sumarGastos(gastos) ==
  IF gastos = <<>> THEN 0
  ELSE (IF gastos[1].moneda = "USD" THEN UsdUnits(gastos[1].monto)
        ELSE PenToUsdUnits(gastos[1].monto))
       + sumarGastos(Tail(gastos))

calcularUtilidadNeta(utilidadOperativa, gastos) ==
  LET gastosAdministrativos == sumarGastos(gastos.administrativos)
      gastosVentas == sumarGastos(gastos.ventas)
      gastosFinancieros == sumarGastos(gastos.financieros)
      totalOtrosGastos == gastosAdministrativos + gastosVentas + gastosFinancieros
      utilidadNeta == UsdUnits(utilidadOperativa.utilidad_operativa) - totalOtrosGastos
      ventasTotales == utilidadOperativa.utilidad_bruta + utilidadOperativa.gastos_operativos
  IN [utilidad_operativa |-> utilidadOperativa.utilidad_operativa,
      gastos_administrativos |-> ToFixed2(gastosAdministrativos),
      gastos_ventas |-> ToFixed2(gastosVentas),
      gastos_financieros |-> ToFixed2(gastosFinancieros),
      total_otros_gastos |-> ToFixed2(totalOtrosGastos),
      utilidad_neta |-> ToFixed2(utilidadNeta),
      margen_neto_porcentaje |->
        IF ventasTotales > 0 THEN Percentage(utilidadNeta, UsdUnits(ventasTotales))
        ELSE 0]

\* The sum, in cents, of the `campo` of the rows recorded in `moneda` (every
\* row when moneda is "*").
RECURSIVE TotalIn(_, _, _)
TotalIn(rows, campo, moneda) ==
  IF rows = <<>> THEN 0
  ELSE (IF moneda = "*" \/ (moneda = "USD") = (rows[1].moneda = "USD")
          THEN rows[1][campo] ELSE 0)
       + TotalIn(Tail(rows), campo, moneda)

calcularResumenMonedas(importaciones, exportaciones, gastos) ==
  LET todosGastos == gastos.operativos \o gastos.administrativos \o gastos.ventas
                       \o gastos.financieros
  IN [total_usd |-> TotalIn(exportaciones, "valor_venta", "USD")
                      + TotalIn(importaciones, "valor_cif", "*")
                      + TotalIn(importaciones, "dta_total", "*")
                      + TotalIn(todosGastos, "monto", "USD"),
      total_pen |-> TotalIn(exportaciones, "valor_venta", "PEN")
                      + TotalIn(todosGastos, "monto", "PEN"),
      tipo_cambio_sugerido |-> 375]

\* The tables obtenerAnalisisRentabilidad has queried when it returns or
\* throws: the case, then (only for a case of the requester) its name, its
\* imports and the tax lines of each import, its sales and its expenses.
AnalisisQueries(casoId, userId, st) ==
  IF ~validarCasoExiste(casoId, userId, st) THEN <<"casos_de_estudio">>
  ELSE <<"casos_de_estudio", "casos_de_estudio", "importaciones">>
         \o [i \in 1..Len(RowsOfCase(st.importaciones, casoId)) |-> "importacion_tributos"]
         \o <<"exportaciones", "gastos">>

obtenerAnalisisRentabilidad(casoId, userId, st) ==
  IF ~validarCasoExiste(casoId, userId, st) THEN NotFoundOrUnauthorized
  ELSE LET importaciones == RowsOfCase(st.importaciones, casoId)
           exportaciones == RowsOfCase(st.exportaciones, casoId)
           gastos == obtenerGastosPorClasificacion(casoId, st)
           utilidadBruta == calcularUtilidadBruta(exportaciones, importaciones)
           utilidadOperativa == calcularUtilidadOperativa(utilidadBruta, gastos.operativos)
       IN IF utilidadOperativa = TypeError THEN TypeError
          ELSE [status |-> "ok",
                caso_estudio_id |-> casoId,
                utilidad_bruta |-> utilidadBruta,
                utilidad_operativa |-> utilidadOperativa,
                utilidad_neta |-> calcularUtilidadNeta(utilidadOperativa, gastos),
                resumen_monedas |->
                  calcularResumenMonedas(importaciones, exportaciones, gastos)]

\* The cases obtenerComparativo fetches: those of the user, ORDER BY
\* created_at DESC LIMIT limite.  Cases created at the same time come in any
\* order, so this is the set of the lists the query can return.
CasosFetched(userId, limite, st) ==
  LET propios == {c \in st.casos_de_estudio : c.user_id = userId}
      ordered == {q \in Orderings(propios) :
                    \A i, j \in DOMAIN q : i < j => q[j].created_at <= q[i].created_at}
  IN {SubSeq(q, 1, IF limite < Len(q) THEN limite ELSE Len(q)) : q \in ordered}

\* Mutant: the catch reports a net margin of -1 for the case whose analysis
\* throws.
ComparativeRow_NoZeroes(caso, userId, st) ==
  LET analysis == obtenerAnalisisRentabilidad(caso.id, userId, st)
  IN IF analysis.status = "ok"
       THEN [caso_id |-> caso.id,
             margen_neto |-> analysis.utilidad_neta.margen_neto_porcentaje,
             utilidad_neta |-> analysis.utilidad_neta.utilidad_neta,
             ventas_totales |-> analysis.utilidad_bruta.ventas_totales,
             error |-> Absent]
     ELSE [caso_id |-> caso.id, margen_neto |-> -1, utilidad_neta |-> 0,
           ventas_totales |-> 0, error |-> Some("Error al calcular analisis")]

\* The row of one case: its analysis in a try, the zero row in the catch.
ComparativeRow(caso, userId, st) ==
  LET analysis == obtenerAnalisisRentabilidad(caso.id, userId, st)
  IN IF analysis.status = "ok"
       THEN [caso_id |-> caso.id,
             margen_neto |-> analysis.utilidad_neta.margen_neto_porcentaje,
             utilidad_neta |-> analysis.utilidad_neta.utilidad_neta,
             ventas_totales |-> analysis.utilidad_bruta.ventas_totales,
             error |-> Absent]
     ELSE [caso_id |-> caso.id, margen_neto |-> 0, utilidad_neta |-> 0,
           ventas_totales |-> 0, error |-> Some("Error al calcular analisis")]

\* Math.max(...margenes), Math.min(...margenes) and the sum of margenes
MathMax(margenes) ==
  CHOOSE m \in {margenes[i] : i \in DOMAIN margenes} :
    \A i \in DOMAIN margenes : margenes[i] <= m
MathMin(margenes) ==
  CHOOSE m \in {margenes[i] : i \in DOMAIN margenes} :
    \A i \in DOMAIN margenes : margenes[i] >= m
RECURSIVE SumOf(_)
SumOf(margenes) ==
  IF margenes = <<>> THEN 0 ELSE margenes[1] + SumOf(Tail(margenes))

\* (sum / n).toFixed(2), in hundredths of a percent
Promedio(sum, n) == (2 * sum + n) \div (2 * n)

\* The outcomes of obtenerComparativo(userId, limite) on the store st: one
\* per order in which the cases can be fetched.
obtenerComparativo(userId, limite, st) ==
  LET Comparativo(rows) ==
        IF rows = <<>>
          THEN [status |-> "ok", total_casos |-> 0, casos |-> <<>>,
                estadisticas |-> [mejor_margen |-> 0, peor_margen |-> 0,
                                  promedio_margen |-> 0]]
        ELSE LET comparativeData ==
                   [i \in DOMAIN rows |-> ComparativeRow(rows[i], userId, st)]
                 margenes == [i \in DOMAIN rows |-> comparativeData[i].margen_neto]
             IN [status |-> "ok", total_casos |-> Len(rows),
                 casos |-> comparativeData,
                 estadisticas |->
                   [mejor_margen |-> MathMax(margenes),
                    peor_margen |-> MathMin(margenes),
                    promedio_margen |-> Promedio(SumOf(margenes), Len(margenes))]]
  IN {Comparativo(rows) : rows \in CasosFetched(userId, limite, st)}

\* The tables obtenerComparativo has queried: the cases, then the queries of
\* the analysis of each case (grouped by case here; the analyses run
\* together and their queries interleave).
RECURSIVE ComparativoQueries(_, _, _)
ComparativoQueries(casos, userId, st) ==
  IF casos = <<>> THEN <<>>
  ELSE AnalisisQueries(casos[1].caso_id, userId, st)
         \o ComparativoQueries(Tail(casos), userId, st)

\* ------------------------------------------------ importacion.service.ts

(***************************************************************************)
(* calcularImportacion rounds nothing.  Its amounts are exact rationals:   *)
(* a rate is in 1/50 (0.16 is 8) and an amount in 1/50^4 of the currency   *)
(* unit, so that the four nested multiplications by a rate stay exact.     *)
(***************************************************************************)
ImpUnit == 50 * 50 * 50 * 50
\* amount x rate, exact at this scale
TimesRate(amount, rate) == (amount \div 50) * rate

calcularImportacion(data, tasasImpuestos) ==
  LET valorCIF == (data.valor_fob + data.valor_flete + data.valor_seguro) * ImpUnit
      tasaAdValorem == OrElse(data.ad_valorem_tasa_manual, 0)
      montoAdValorem == TimesRate(valorCIF, tasaAdValorem)
      baseISC == valorCIF + montoAdValorem
      tasaISC == OrElse(data.isc_tasa_ingresada, 0)
      montoISC == IF data.habilitar_isc THEN TimesRate(baseISC, tasaISC) ELSE 0
      baseIGV == valorCIF + montoAdValorem + montoISC
      montoIGV == IF data.habilitar_igv THEN TimesRate(baseIGV, tasasImpuestos.igv) ELSE 0
      montoIPM == IF data.habilitar_igv THEN TimesRate(baseIGV, tasasImpuestos.ipm) ELSE 0
      basePercepcion == valorCIF + montoAdValorem + montoISC + montoIGV + montoIPM
      tasaPercepcion == OrElse(data.percepcion_tasa_ingresada, 0)
      montoPercepcion == IF data.habilitar_percepcion
                           THEN TimesRate(basePercepcion, tasaPercepcion) ELSE 0
      dtaTotal == montoAdValorem + montoISC + montoIGV + montoIPM
      Line(concepto, base, tasa, monto) ==
        IF monto > 0
          THEN <<[concepto |-> concepto, base_imponible |-> base,
                  tasa_aplicada |-> tasa, monto_calculado |-> monto]>>
          ELSE <<>>
      tributos ==
        Line("ad_valorem", valorCIF, tasaAdValorem, montoAdValorem) \o
        Line("isc", baseISC, tasaISC, montoISC) \o
        Line("igv", baseIGV, tasasImpuestos.igv, montoIGV) \o
        Line("ipm", baseIGV, tasasImpuestos.ipm, montoIPM) \o
        Line("percepcion", basePercepcion, tasaPercepcion, montoPercepcion)
      totalDesembolsado == dtaTotal + montoPercepcion
      asientoContable ==
        << [cuenta |-> "601", debe |-> valorCIF, haber |-> 0],
           [cuenta |-> "40111", debe |-> montoIGV + montoIPM, haber |-> 0],
           [cuenta |-> "60912", debe |-> montoAdValorem, haber |-> 0],
           [cuenta |-> "40113", debe |-> montoPercepcion, haber |-> 0],
           [cuenta |-> "4212", debe |-> 0, haber |-> totalDesembolsado] >>
  IN [status |-> "ok",
      valor_cif |-> valorCIF,
      monto_ad_valorem |-> montoAdValorem,
      monto_isc |-> montoISC,
      monto_igv |-> montoIGV,
      monto_ipm |-> montoIPM,
      monto_percepcion |-> montoPercepcion,
      dta_total |-> dtaTotal,
      tributos |-> tributos,
      asiento_contable |-> asientoContable]

\* A dbQuery that rejects (connection lost, constraint violated, ...).
DbError == [status |-> "error", error |-> "DbError"]

\* obtenerTasasImpuestos: the IGV and IPM rates of the store over the
\* defaults 0.16 and 0.02; the defaults when the query fails.
obtenerTasasImpuestos(st, queryFails) ==
  LET Tasa(codigo, default) ==
        IF queryFails \/ ~\E r \in st.impuesto : r.codigo = codigo THEN default
        ELSE (CHOOSE r \in st.impuesto : r.codigo = codigo).tasa
  IN [igv |-> Tasa("IGV", 8), ipm |-> Tasa("IPM", 1)]

\* obtenerTasaAdValorem: the rates the query can return as its first row;
\* Absent (null) when there is no row or the query fails.
obtenerTasaAdValorem(hs10, st, queryFails) ==
  LET rows == {r \in st.ad_valorem : r.hs10 = hs10}
  IN IF queryFails \/ rows = {} THEN {Absent} ELSE {Some(r.tasa) : r \in rows}

\* The row INSERT INTO miaff.importaciones ... RETURNING * stores.
ImportacionRow(id, user_id, data, calculado) ==
  [id |-> id, caso_estudio_id |-> data.caso_estudio_id, user_id |-> user_id,
   subpartida_hs10 |-> data.subpartida_hs10, moneda |-> data.moneda,
   valor_fob |-> data.valor_fob, valor_flete |-> data.valor_flete,
   valor_seguro |-> data.valor_seguro,
   ad_valorem_tasa_manual |-> data.ad_valorem_tasa_manual,
   antidumping_ingresado |-> data.antidumping_ingresado,
   compensatorio_ingresado |-> data.compensatorio_ingresado,
   sda_ingresado |-> data.sda_ingresado,
   valor_cif |-> calculado.valor_cif,
   monto_ad_valorem |-> calculado.monto_ad_valorem,
   monto_isc |-> calculado.monto_isc, monto_igv |-> calculado.monto_igv,
   monto_ipm |-> calculado.monto_ipm,
   monto_percepcion |-> calculado.monto_percepcion,
   dta_total |-> calculado.dta_total]

\* The rows INSERT INTO miaff.importacion_tributos stores for the first n
\* tax lines of the list.
TributoRows(id, tributos, n) ==
  [i \in 1..n |-> [importacion_id |-> id, concepto |-> tributos[i].concepto,
                   monto_calculado |-> tributos[i].monto_calculado]]

\* The outcomes of crearImportacion(user_id, data) on the store st.  Each
\* dbQuery is a statement of its own (no transaction): the two rate queries
\* fall back when they fail, the INSERT of the import row or of any tax line
\* throws when it fails and leaves what was stored before it.  An outcome is
\* the result, the data as the call left it, the store and the statements.
crearImportacion(user_id, data, st) ==
  LET usesAutomatic == ~(OrElse(data.ad_valorem_tasa_manual, 0) # 0)
                         /\ data.subpartida_hs10 # ""
      Outcome(tasasFail, tasaAutomatica, failAt) ==
        LET tasasImpuestos == obtenerTasasImpuestos(st, tasasFail)
            data2 == IF usesAutomatic
                       THEN [data EXCEPT !.ad_valorem_tasa_manual =
                                            Some(OrElse(tasaAutomatica, 0))]
                       ELSE data
            calculado == calcularImportacion(data2, tasasImpuestos)
            id == Len(st.importaciones) + 1
            n == Len(calculado.tributos)
            stored == IF failAt = 0 THEN n
                      ELSE IF failAt = 1 THEN 0 ELSE failAt - 2
            selects == <<"SELECT impuesto">>
                         \o (IF usesAutomatic THEN <<"SELECT ad_valorem">> ELSE <<>>)
            inserts == <<"INSERT importaciones">>
                         \o [i \in 1..(IF failAt = 0 THEN n
                                       ELSE IF failAt = 1 THEN 0 ELSE failAt - 1) |->
                               "INSERT importacion_tributos"]
        IN IF failAt > n + 1 THEN {}
           ELSE {[result |-> IF failAt = 0
                               THEN [status |-> "ok",
                                     importacion |-> ImportacionRow(id, user_id, data2, calculado),
                                     tributos |-> calculado.tributos]
                               ELSE DbError,
                  data |-> data2,
                  store |->
                    IF failAt = 1 THEN st
                    ELSE [st EXCEPT
                            !.importaciones =
                               Append(@, ImportacionRow(id, user_id, data2, calculado)),
                            !.importacion_tributos =
                               @ \o TributoRows(id, calculado.tributos, stored)],
                  queries |-> selects \o inserts]}
  IN UNION {Outcome(tf, ta, failAt) :
              tf \in BOOLEAN,
              ta \in (IF usesAutomatic
                        THEN obtenerTasaAdValorem(data.subpartida_hs10, st, TRUE)
                               \cup obtenerTasaAdValorem(data.subpartida_hs10, st, FALSE)
                        ELSE {Absent}),
              failAt \in 0..6}

\* ------------------------------------- controllers: AnalisisController

\* The value of a decimal digit.
DigitValue(ch) ==
  CASE ch = "0" -> 0 [] ch = "1" -> 1 [] ch = "2" -> 2 [] ch = "3" -> 3
    [] ch = "4" -> 4 [] ch = "5" -> 5 [] ch = "6" -> 6 [] ch = "7" -> 7
    [] ch = "8" -> 8 [] ch = "9" -> 9

\* parseInt(val): the number its leading digits spell, Absent (NaN) when it
\* does not start with a digit.
RECURSIVE ParseIntFrom(_, _)
ParseIntFrom(acc, chars) ==
  IF chars = <<>> \/ chars[1] \notin Digits THEN acc
  ELSE ParseIntFrom(10 * acc + DigitValue(chars[1]), Tail(chars))
ParseInt(chars) ==
  IF chars = <<>> \/ chars[1] \notin Digits THEN Absent
  ELSE Some(ParseIntFrom(0, chars))

\* obtenerAnalisisSchema.parse and analisisQuerySchema.parse succeed.
ParamsAreValid(req) ==
  /\ IsPresent(ParseInt(req.caso_id)) /\ ParseInt(req.caso_id)[1] > 0
  /\ req.incluir_detalles \in {"undefined", "true", "false"}

\* requireAuth: the responses it sends itself (401 without a bearer token).
RequireAuthResponses(req) ==
  IF IsPresent(req.user) THEN <<>> ELSE <<[status |-> 401]>>

\* The responses obtenerAnalisisCompleto sends to a request that passed
\* requireAuth: 200 with the analysis; its catch block only logs the error.
CompletoResponses(req, st) ==
  IF ~ParamsAreValid(req) THEN <<>>
  ELSE LET analysis ==
             obtenerAnalisisRentabilidad(ParseInt(req.caso_id)[1], req.user[1], st)
       IN IF analysis.status = "ok" THEN <<[status |-> 200, data |-> analysis]>>
          ELSE <<>>

\* The responses obtenerRatiosRentabilidad sends to a request that passed
\* requireAuth: 200, or 400 / 404 / 500 from its catch block.
RatiosResponses(req, st) ==
  IF ~(IsPresent(ParseInt(req.caso_id)) /\ ParseInt(req.caso_id)[1] > 0)
    THEN <<[status |-> 400]>>
  ELSE LET analysis ==
             obtenerAnalisisRentabilidad(ParseInt(req.caso_id)[1], req.user[1], st)
       IN IF analysis.status = "ok"
            THEN <<[status |-> 200,
                    data |-> [caso_estudio_id |-> analysis.caso_estudio_id,
                              margen_neto |-> analysis.utilidad_neta.margen_neto_porcentaje,
                              neta |-> analysis.utilidad_neta.utilidad_neta]]>>
          ELSE IF analysis = NotFoundOrUnauthorized THEN <<[status |-> 404]>>
          ELSE <<[status |-> 500]>>

\* ------------------------------------- routes: POST /refresh, POST /logout

\* sha256(value): a digest, different for different values.
sha256(value) == <<"sha256", value>>

\* generateRefreshToken: a fresh random token (the n-th one generated) and
\* its hash.
generateRefreshToken(n) == [token |-> n, hash |-> sha256(n)]

\* SELECT id, user_id FROM miaff.auth_sessions WHERE refresh_token_hash = $1
\* AND revoked_at IS NULL AND expires_at > NOW() LIMIT 1: the ids it can return.
SessionsByHash(sessions, hash) ==
  {id \in DOMAIN sessions :
     sessions[id].refresh_token_hash = hash /\ ~sessions[id].revoked}

\* UPDATE miaff.auth_sessions SET refresh_token_hash = $1 ... WHERE id = $3
RotateSession(sessions, id, newHash) ==
  [sessions EXCEPT ![id].refresh_token_hash = newHash]

\* UPDATE miaff.auth_sessions SET revoked_at = NOW() WHERE
\* refresh_token_hash = $1 AND revoked_at IS NULL
RevokeByHash(sessions, hash) ==
  [id \in DOMAIN sessions |->
     IF sessions[id].refresh_token_hash = hash /\ ~sessions[id].revoked
       THEN [sessions[id] EXCEPT !.revoked = TRUE]
       ELSE sessions[id]]

\* ------------------------------------------------------- inputs of a call

\* Bounds of the enumerated inputs.
MaxRemedies == 2
MaxBands == 2

\* All sequences over S of length 0..n.
SeqsUpTo(S, n) == UNION {[1..k -> S] : k \in 0..n}

NoOverrides ==
  [adValoremRate |-> Absent, antidumpingUsd |-> Absent, countervailingUsd |-> Absent,
   perceptionRate |-> Absent, sdaUsd |-> Absent]

ImporterProfiles == {"undefined", "normal", "first_import", "no_habido", "public", "amazon"}

\* Alcohol-strength bands (params.bands) of a mixed excise rule: up to MaxBands
\* bands, some without a numeric max_abv or amount.
BandPool ==
  << [max_abv |-> Some(10), specific_per_l_pen |-> Some(150)],
     [max_abv |-> Some(20), specific_per_l_pen |-> Some(250)],
     [max_abv |-> Some(40), specific_per_l_pen |-> Absent],
     [max_abv |-> Absent, specific_per_l_pen |-> Some(900)] >>
BandLists == SeqsUpTo({BandPool[i] : i \in 1..Len(BandPool)}, MaxBands)

IscRules ==
  {Absent}
  \cup {Some([system |-> sys, adValRate |-> Some(2000), specificAmount |-> Some(225),
              params |-> Absent]) : sys \in {"none", "publico", "ad_valorem", "especifico"}}
  \cup {Some([system |-> "ad_valorem", adValRate |-> Absent, specificAmount |-> Absent,
              params |-> Absent]),
        Some([system |-> "especifico", adValRate |-> Absent, specificAmount |-> Absent,
              params |-> Absent])}
  \cup {Some([system |-> "mixed", adValRate |-> a, specificAmount |-> f, params |-> b]) :
          a \in {Absent, Some(1735)}, f \in {Absent, Some(225)},
          b \in {Absent} \cup {Some(l) : l \in BandLists}}

RemedyPool ==
  {[type |-> "AD", mode |-> "ad_valorem", rateOrAmount |-> 500],
   [type |-> "CVD", mode |-> "ad_valorem", rateOrAmount |-> 333],
   [type |-> "AD", mode |-> "specific", rateOrAmount |-> 125],
   [type |-> "CVD", mode |-> "specific", rateOrAmount |-> 15]}
RemedyLists == SeqsUpTo(RemedyPool, MaxRemedies)

PermitLists ==
  {<<>>,
   <<[authority |-> "SENASA", note |-> Absent]>>,
   <<[authority |-> "DIGESA", note |-> Some("registro sanitario")],
     [authority |-> "SENASA", note |-> Absent]>>}

AdminFees == [uit |-> 100000, sdaRate |-> 235, thresholdUIT |-> 3]

\* Background calls the families below vary: a plain line, and a line with a
\* preference, mixed excise, trade remedies, permits and overrides.
PlainCall ==
  [variant |-> "multi",
   input |-> [fxRate |-> Some(375), cif |-> Some(1000000), fob |-> Absent,
              freight |-> Absent, insurance |-> Absent, useFTA |-> FALSE,
              quantity |-> Absent, isUsed |-> FALSE, importerProfile |-> "undefined",
              alcoholDegree |-> Absent],
   prof |-> [mfnRate |-> 600, ftaRate |-> Absent, iscRule |-> Absent,
             vatExempt |-> FALSE, tradeRemedies |-> <<>>, permits |-> <<>>,
             adminFees |-> AdminFees],
   overrides |-> NoOverrides]

RichCall ==
  [variant |-> "multi",
   input |-> [fxRate |-> Some(375), cif |-> Absent, fob |-> Some(600000),
              freight |-> Some(150005), insurance |-> Some(50000), useFTA |-> TRUE,
              quantity |-> Some(1000), isUsed |-> TRUE, importerProfile |-> "normal",
              alcoholDegree |-> Some(12)],
   prof |-> [mfnRate |-> 900, ftaRate |-> Some(300),
             iscRule |-> Some([system |-> "mixed", adValRate |-> Some(1735),
                               specificAmount |-> Some(225),
                               params |-> Some(<<BandPool[1], BandPool[2]>>)]),
             vatExempt |-> FALSE,
             tradeRemedies |-> <<[type |-> "AD", mode |-> "ad_valorem", rateOrAmount |-> 500],
                                 [type |-> "CVD", mode |-> "specific", rateOrAmount |-> 15]>>,
             permits |-> <<[authority |-> "DIGESA", note |-> Some("registro sanitario")]>>,
             adminFees |-> AdminFees],
   overrides |-> [NoOverrides EXCEPT !.antidumpingUsd = Some(30005)]]

MultiContexts == {PlainCall, RichCall}

\* The value basis and the exchange rate.
BasisCalls ==
  {[c EXCEPT !.input.cif = cif, !.input.fob = fob, !.input.freight = fr,
             !.input.insurance = ins, !.input.fxRate = fx] :
     c \in MultiContexts,
     cif \in {Absent, Some(0), Some(333335), Some(800000), Some(1000000)},
     fob \in {Absent, Some(0), Some(600000)},
     fr \in {Absent, Some(0), Some(150005)},
     ins \in {Absent, Some(50000)},
     fx \in {Absent, Some(0), Some(100), Some(375)}}

\* The duty rate: MFN, preference, override.
DutyCalls ==
  {[c EXCEPT !.input.useFTA = fta, !.prof.ftaRate = fr, !.prof.mfnRate = mfn,
             !.overrides.adValoremRate = ov, !.input.cif = Some(cif)] :
     c \in MultiContexts, fta \in BOOLEAN,
     fr \in {Absent, Some(0), Some(300), Some(600), Some(900)},
     mfn \in {0, 600},
     ov \in {Absent, Some(0), Some(400), Some(2000)},
     cif \in {333335, 1000000}}

\* The excise rule, the quantity and the alcohol strength.
ExciseCalls ==
  {[c EXCEPT !.prof.iscRule = rule, !.input.quantity = q, !.input.alcoholDegree = deg,
             !.prof.vatExempt = ex] :
     c \in MultiContexts, rule \in IscRules,
     q \in {Absent, Some(25), Some(1000)},
     deg \in {Absent, Some(0), Some(12), Some(20), Some(50)},
     ex \in BOOLEAN}

\* The perception rate and base.
PerceptionCalls ==
  {[c EXCEPT !.input.importerProfile = ip, !.input.isUsed = used,
             !.overrides.perceptionRate = ov, !.prof.vatExempt = ex,
             !.overrides.antidumpingUsd = ad, !.overrides.countervailingUsd = cvd] :
     c \in MultiContexts, ip \in ImporterProfiles, used \in BOOLEAN,
     ov \in {Absent, Some(0), Some(200)}, ex \in BOOLEAN,
     ad \in {Absent, Some(0), Some(30005)},
     cvd \in {Absent, Some(100000)}}

\* Trade remedies, permits and the special customs fee.
RemedyCalls ==
  {[c EXCEPT !.prof.tradeRemedies = tr, !.input.quantity = q,
             !.overrides.antidumpingUsd = ad, !.overrides.sdaUsd = sda,
             !.prof.permits = pm] :
     c \in MultiContexts, tr \in RemedyLists,
     q \in {Absent, Some(25)},
     ad \in {Absent, Some(30005)},
     sda \in {Absent, Some(0), Some(53005), Some(0 - 5000)},
     pm \in PermitLists}

FeeCalls ==
  {[c EXCEPT !.input.cif = Some(cif), !.input.fxRate = Some(fx),
             !.overrides.sdaUsd = sda, !.prof.adminFees.thresholdUIT = th] :
     c \in MultiContexts,
     cif \in {333335, 800000, 800001, 1000000},
     fx \in {100, 375},
     sda \in {Absent, Some(0), Some(53005), Some(0 - 5000)},
     th \in {0, 3}}

\* Overrides that are present with the value 0, against absent ones.
ZeroOverrideCalls ==
  {[c EXCEPT !.overrides.adValoremRate = av, !.overrides.perceptionRate = pr,
             !.overrides.sdaUsd = sda] :
     c \in MultiContexts,
     av \in {Absent, Some(0)}, pr \in {Absent, Some(0)}, sda \in {Absent, Some(0)}}

MultiCalls ==
  BasisCalls \cup DutyCalls \cup ExciseCalls \cup PerceptionCalls \cup RemedyCalls
    \cup FeeCalls \cup ZeroOverrideCalls

\* The USD-only variant: the form's toggles are always sent.
PlainUsdCall ==
  [variant |-> "usd",
   input |-> [cif |-> Absent, fob |-> Some(1000000), freight |-> Some(150000),
              insurance |-> Some(50000), isUsed |-> FALSE,
              importerProfile |-> "undefined"],
   prof |-> [adValoremRate |-> 600, igvRate |-> 1600, ipmRate |-> 200],
   overrides |-> [igvEnabled |-> TRUE, iscEnabled |-> FALSE, perceptionEnabled |-> FALSE,
                  iscRate |-> Absent, antidumpingUsd |-> Absent,
                  countervailingUsd |-> Absent, perceptionRate |-> Absent,
                  sdaUsd |-> Absent]]

RichUsdCall ==
  [PlainUsdCall EXCEPT !.input.cif = Some(333335), !.input.isUsed = TRUE,
                       !.overrides.iscEnabled = TRUE, !.overrides.iscRate = Some(1735),
                       !.overrides.perceptionEnabled = TRUE,
                       !.overrides.antidumpingUsd = Some(30005),
                       !.overrides.sdaUsd = Some(20005)]

UsdContexts == {PlainUsdCall, RichUsdCall}

UsdBasisCalls ==
  {[c EXCEPT !.input.cif = cif, !.input.fob = fob, !.input.freight = fr,
             !.input.insurance = ins] :
     c \in UsdContexts,
     cif \in {Absent, Some(0), Some(333335), Some(1200000)},
     fob \in {Absent, Some(0), Some(1000000)},
     fr \in {Absent, Some(0), Some(150000)},
     ins \in {Absent, Some(50000)}}

UsdToggleCalls ==
  {[c EXCEPT !.overrides.igvEnabled = igv, !.overrides.iscEnabled = isc,
             !.overrides.perceptionEnabled = perc, !.overrides.iscRate = rate,
             !.prof.adValoremRate = av, !.prof.igvRate = vat[1], !.prof.ipmRate = vat[2]] :
     c \in UsdContexts, igv \in BOOLEAN, isc \in BOOLEAN, perc \in BOOLEAN,
     rate \in {Absent, Some(0), Some(1000), Some(5000)},
     av \in {0, 600},
     vat \in {<<1600, 200>>, <<1800, 0>>}}

UsdPerceptionCalls ==
  {[c EXCEPT !.input.importerProfile = ip, !.input.isUsed = used,
             !.overrides.perceptionEnabled = perc, !.overrides.perceptionRate = ov,
             !.overrides.igvEnabled = igv, !.overrides.antidumpingUsd = ad,
             !.overrides.countervailingUsd = cvd, !.overrides.sdaUsd = sda] :
     c \in UsdContexts, ip \in ImporterProfiles, used \in BOOLEAN, perc \in BOOLEAN,
     ov \in {Absent, Some(0), Some(200)}, igv \in BOOLEAN,
     ad \in {Absent, Some(0), Some(30005)},
     cvd \in {Absent, Some(100000)},
     sda \in {Absent, Some(0), Some(20005)}}

UsdCalls == UsdBasisCalls \cup UsdToggleCalls \cup UsdPerceptionCalls

\* ImportacionService.calcularImportacion: the data of one import and the
\* general tax rates read from the store (defaults 0.16 and 0.02).
ImportacionCalls ==
  {[variant |-> "importacion",
    input |-> [valor_fob |-> fob, valor_flete |-> fl, valor_seguro |-> 5,
               ad_valorem_tasa_manual |-> av,
               habilitar_isc |-> hisc, isc_tasa_ingresada |-> isc,
               habilitar_igv |-> higv,
               habilitar_percepcion |-> hperc, percepcion_tasa_ingresada |-> perc,
               antidumping_ingresado |-> ad, compensatorio_ingresado |-> 0,
               sda_ingresado |-> sda],
    prof |-> [igv |-> 8, ipm |-> 1],
    overrides |-> Absent] :
     fob \in {0, 40, 60}, fl \in {0, 10},
     av \in {Absent, Some(0), Some(3)},
     hisc \in BOOLEAN, isc \in {Absent, Some(0), Some(10)},
     higv \in BOOLEAN, hperc \in BOOLEAN, perc \in {Absent, Some(5)},
     ad \in {0, 7}, sda \in {0, 2}}

\* ------------------------------------------ the stores loadRuleProfile reads

\* Bound of the enumerated tables: the number of rows of a varied table.
MaxRows == 2

SubsetsUpTo(S, n) == {x \in SUBSET S : Cardinality(x) <= n}

\* The dates rows start and end on, and the dates of a call.
CallDates == {<<2025, 160>>, <<2025, 200>>, <<2026, 10>>}

TariffWine == [id |-> 1, hs10 |-> <<"2", "2", ".", "0", "4">>, mfn_rate |-> 600]
TariffCar == [id |-> 2, hs10 |-> <<"8", "7", "0", "3">>, mfn_rate |-> 900]

\* Preferential rates: in force, expired, not yet started, of another country
\* and of another tariff.
FtaPool ==
  {[tariff_id |-> 1, country |-> "CL", rate |-> 300,
    valid_from |-> <<2025, 1>>, valid_to |-> Absent],
   [tariff_id |-> 1, country |-> "CL", rate |-> 100,
    valid_from |-> <<2025, 150>>, valid_to |-> Some(<<2026, 365>>)],
   [tariff_id |-> 1, country |-> "CL", rate |-> 0,
    valid_from |-> <<2025, 170>>, valid_to |-> Some(<<2025, 180>>)],
   [tariff_id |-> 1, country |-> "CL", rate |-> 500,
    valid_from |-> <<2026, 1>>, valid_to |-> Absent],
   [tariff_id |-> 1, country |-> "CN", rate |-> 200,
    valid_from |-> <<2025, 1>>, valid_to |-> Absent],
   [tariff_id |-> 2, country |-> "CL", rate |-> 400,
    valid_from |-> <<2025, 1>>, valid_to |-> Absent]}

IscPool ==
  {[tariff_id |-> 1, system |-> "ad_valorem", ad_valorem_rate |-> Some(2000),
    specific_amount |-> Absent, params |-> Absent,
    valid_from |-> <<2025, 1>>, valid_to |-> Absent],
   [tariff_id |-> 1, system |-> "especifico", ad_valorem_rate |-> Absent,
    specific_amount |-> Some(225), params |-> Absent,
    valid_from |-> <<2025, 170>>, valid_to |-> Some(<<2025, 180>>)],
   [tariff_id |-> 1, system |-> "mixed", ad_valorem_rate |-> Some(1735),
    specific_amount |-> Some(225), params |-> Some(<<BandPool[1]>>),
    valid_from |-> <<2026, 1>>, valid_to |-> Absent],
   [tariff_id |-> 2, system |-> "ad_valorem", ad_valorem_rate |-> Some(1000),
    specific_amount |-> Absent, params |-> Absent,
    valid_from |-> <<2025, 1>>, valid_to |-> Absent]}

VatExemptPool ==
  {[tariff_id |-> 1, valid_from |-> <<2025, 1>>, valid_to |-> Some(<<2025, 180>>)],
   [tariff_id |-> 1, valid_from |-> <<2026, 1>>, valid_to |-> Absent],
   [tariff_id |-> 2, valid_from |-> <<2025, 1>>, valid_to |-> Absent]}

RemedyRowPool ==
  {[tariff_id |-> 1, country |-> "CL", type |-> "AD", mode |-> "ad_valorem",
    rate_or_amount |-> 500, valid_from |-> <<2025, 1>>, valid_to |-> Absent],
   [tariff_id |-> 1, country |-> "CL", type |-> "CVD", mode |-> "specific",
    rate_or_amount |-> 15, valid_from |-> <<2025, 150>>, valid_to |-> Some(<<2026, 365>>)],
   [tariff_id |-> 1, country |-> "CL", type |-> "AD", mode |-> "specific",
    rate_or_amount |-> 125, valid_from |-> <<2025, 150>>, valid_to |-> Some(<<2025, 180>>)],
   [tariff_id |-> 1, country |-> "CN", type |-> "AD", mode |-> "ad_valorem",
    rate_or_amount |-> 333, valid_from |-> <<2025, 1>>, valid_to |-> Absent]}

PermitRowPool ==
  {[tariff_id |-> 1, authority |-> "DIGESA", note |-> Some("registro sanitario")],
   [tariff_id |-> 1, authority |-> "SENASA", note |-> Absent],
   [tariff_id |-> 2, authority |-> "MTC", note |-> Absent]}

AdminFeeRowPool ==
  {[year |-> 2025, uit_value |-> 100000, sda_rate_import |-> 235,
    threshold_cif_in_uit |-> 3],
   [year |-> 2026, uit_value |-> 110000, sda_rate_import |-> 235,
    threshold_cif_in_uit |-> 3]}

\* The store of a call that reads no table.
EmptyStore ==
  [tariffs |-> {}, fta_rates |-> {}, isc_rules |-> {}, vat_exempt |-> {},
   trade_remedies |-> {}, permits_map |-> {}, admin_fees |-> {},
   current_date |-> <<2025, 200>>]

\* Background calls of loadRuleProfile: a store with only the mandatory rows,
\* and one with rows in every table.
BareLoadCall ==
  [variant |-> "load",
   input |-> [hs10 |-> <<"2", "2", "0", "4">>, originCountry |-> "CL",
              today |-> <<2025, 200>>],
   prof |-> Absent, overrides |-> Absent,
   store |-> [EmptyStore EXCEPT !.tariffs = {TariffWine, TariffCar},
                                !.admin_fees = AdminFeeRowPool]]

RichLoadCall ==
  [BareLoadCall EXCEPT !.input.hs10 = <<"2", "2", "0", ".", "4">>,
                       !.store.fta_rates = FtaPool,
                       !.store.isc_rules = IscPool,
                       !.store.vat_exempt = VatExemptPool,
                       !.store.trade_remedies = RemedyRowPool,
                       !.store.permits_map = PermitRowPool]

LoadContexts == {BareLoadCall, RichLoadCall}

\* The mandatory rows: the tariff and the administrative fees of the year.
MandatoryLoadCalls ==
  {[c EXCEPT !.input.hs10 = hs, !.input.today = d, !.store.tariffs = ts,
             !.store.admin_fees = fees] :
     c \in LoadContexts,
     hs \in {<<"2", "2", "0", "4">>, <<"2", "2", ".", "0", ".", "4">>,
             <<"8", "7", ".", "0", "3">>, <<"9", "9", "9", "9">>},
     d \in CallDates,
     ts \in SUBSET {TariffWine, TariffCar},
     fees \in SUBSET AdminFeeRowPool}

\* The preferential rate and the validity windows.
FtaLoadCalls ==
  {[c EXCEPT !.store.fta_rates = rows, !.input.originCountry = co,
             !.input.today = d, !.store.current_date = now] :
     c \in {BareLoadCall}, rows \in SubsetsUpTo(FtaPool, MaxRows),
     co \in {"CL", "CN"}, d \in CallDates, now \in CallDates}

\* The excise rule and the validity windows.
IscLoadCalls ==
  {[c EXCEPT !.store.isc_rules = rows, !.input.today = d, !.store.current_date = now] :
     c \in {BareLoadCall}, rows \in SubsetsUpTo(IscPool, MaxRows),
     d \in CallDates, now \in CallDates}

\* VAT exemption, trade remedies and permits.
OptionalLoadCalls ==
  {[c EXCEPT !.store.vat_exempt = vat, !.store.trade_remedies = trs,
             !.store.permits_map = ps, !.store.current_date = now] :
     c \in {BareLoadCall}, vat \in SubsetsUpTo(VatExemptPool, MaxRows),
     trs \in SubsetsUpTo(RemedyRowPool, MaxRows),
     ps \in SubsetsUpTo(PermitRowPool, MaxRows), now \in CallDates}

LoadCalls == MandatoryLoadCalls \cup FtaLoadCalls \cup IscLoadCalls \cup OptionalLoadCalls

\* ------------------------------------- the stores AnalisisService reads

CaseRows == {[id |-> 1, user_id |-> "ana"], [id |-> 2, user_id |-> "luis"]}

SaleRowPool ==
  {[caso_estudio_id |-> 1, valor_venta |-> 4000, moneda |-> "USD"],
   [caso_estudio_id |-> 1, valor_venta |-> 3000, moneda |-> "PEN"],
   [caso_estudio_id |-> 1, valor_venta |-> 1, moneda |-> "PEN"],
   [caso_estudio_id |-> 2, valor_venta |-> 5000, moneda |-> "USD"]}

ImportRowPool ==
  {[caso_estudio_id |-> 1, moneda |-> "USD", valor_cif |-> 2000, dta_total |-> 550],
   [caso_estudio_id |-> 1, moneda |-> "USD", valor_cif |-> 1000, dta_total |-> 0],
   [caso_estudio_id |-> 1, moneda |-> "PEN", valor_cif |-> 1500, dta_total |-> 300],
   [caso_estudio_id |-> 2, moneda |-> "USD", valor_cif |-> 3000, dta_total |-> 700]}

ExpenseRowPool ==
  {[caso_estudio_id |-> 1, clasificacion_nombre |-> "Operativo", monto |-> 500,
    moneda |-> "PEN"],
   [caso_estudio_id |-> 1, clasificacion_nombre |-> "OPERATIVO", monto |-> 300,
    moneda |-> "USD"],
   [caso_estudio_id |-> 1, clasificacion_nombre |-> "Administrativo", monto |-> 100,
    moneda |-> "PEN"],
   [caso_estudio_id |-> 1, clasificacion_nombre |-> "Ventas", monto |-> 100,
    moneda |-> "PEN"],
   [caso_estudio_id |-> 1, clasificacion_nombre |-> "financiero", monto |-> 100,
    moneda |-> "PEN"],
   [caso_estudio_id |-> 1, clasificacion_nombre |-> "Financiero", monto |-> 250,
    moneda |-> "USD"],
   [caso_estudio_id |-> 1, clasificacion_nombre |-> "Otros", monto |-> 700,
    moneda |-> "USD"],
   [caso_estudio_id |-> 2, clasificacion_nombre |-> "Operativo", monto |-> 900,
    moneda |-> "USD"]}

\* Background call of obtenerAnalisisRentabilidad: a case with a sale, an
\* import and one expense of each classification, all but one in PEN.
PlainAnalisisCall ==
  [variant |-> "analisis",
   input |-> [casoId |-> 1, userId |-> "ana"],
   prof |-> Absent, overrides |-> Absent,
   store |-> [casos_de_estudio |-> CaseRows,
              exportaciones |-> <<[caso_estudio_id |-> 1, valor_venta |-> 4000,
                                   moneda |-> "USD"]>>,
              importaciones |-> <<[caso_estudio_id |-> 1, moneda |-> "USD",
                                   valor_cif |-> 2000, dta_total |-> 550]>>,
              gastos |-> <<[caso_estudio_id |-> 1, clasificacion_nombre |-> "Operativo",
                            monto |-> 500, moneda |-> "PEN"],
                           [caso_estudio_id |-> 1, clasificacion_nombre |-> "Ventas",
                            monto |-> 100, moneda |-> "PEN"]>>]]

\* The sale and import rows, and who asks for which case.
TradeAnalisisCalls ==
  {[PlainAnalisisCall EXCEPT !.store.exportaciones = sales, !.store.importaciones = imps,
                             !.input.casoId = id, !.input.userId = user] :
     sales \in SeqsUpTo(SaleRowPool, MaxRows), imps \in SeqsUpTo(ImportRowPool, MaxRows),
     id \in {1, 2, 3}, user \in {"ana", "luis"}}

\* The expense rows.
ExpenseAnalisisCalls ==
  {[PlainAnalisisCall EXCEPT !.store.gastos = gastos, !.store.exportaciones = sales] :
     gastos \in SeqsUpTo(ExpenseRowPool, MaxRows),
     sales \in {<<>>, PlainAnalisisCall.store.exportaciones}}

AnalisisCalls == TradeAnalisisCalls \cup ExpenseAnalisisCalls

\* The stores and arguments of obtenerComparativo: ana has up to three cases,
\* two of them created at the same time; the only expense of case 2 that is
\* operating and in USD makes the analysis of that case throw.
ComparativoCasePool ==
  {[id |-> 1, user_id |-> "ana", created_at |-> 10],
   [id |-> 2, user_id |-> "ana", created_at |-> 20],
   [id |-> 3, user_id |-> "ana", created_at |-> 20],
   [id |-> 4, user_id |-> "luis", created_at |-> 30]}

ComparativoSales ==
  <<[caso_estudio_id |-> 1, valor_venta |-> 4000, moneda |-> "USD"],
    [caso_estudio_id |-> 2, valor_venta |-> 3000, moneda |-> "PEN"],
    [caso_estudio_id |-> 3, valor_venta |-> 5000, moneda |-> "USD"]>>

ComparativoImports ==
  <<[caso_estudio_id |-> 1, moneda |-> "USD", valor_cif |-> 2000, dta_total |-> 550],
    [caso_estudio_id |-> 3, moneda |-> "USD", valor_cif |-> 3000, dta_total |-> 700]>>

ComparativoExpensePool ==
  {[caso_estudio_id |-> 2, clasificacion_nombre |-> "Operativo", monto |-> 300,
    moneda |-> "USD"],
   [caso_estudio_id |-> 1, clasificacion_nombre |-> "Operativo", monto |-> 500,
    moneda |-> "PEN"],
   [caso_estudio_id |-> 3, clasificacion_nombre |-> "Ventas", monto |-> 100,
    moneda |-> "PEN"],
   [caso_estudio_id |-> 4, clasificacion_nombre |-> "Operativo", monto |-> 900,
    moneda |-> "USD"]}

ComparativoCalls ==
  {[variant |-> "comparativo",
    input |-> [userId |-> user, limite |-> limite],
    prof |-> Absent, overrides |-> Absent,
    store |-> [casos_de_estudio |-> casos, exportaciones |-> sales,
               importaciones |-> imps, gastos |-> gastos]] :
     user \in {"ana", "luis"}, limite \in 1..3,
     casos \in SUBSET ComparativoCasePool,
     sales \in {<<>>, ComparativoSales}, imps \in {<<>>, ComparativoImports},
     gastos \in SeqsUpTo(ComparativoExpensePool, MaxRows)}

\* The stores and arguments of ImportacionService.crearImportacion: the
\* import tables empty, the rate tables with and without rows.
ImpuestoTables ==
  {{}, {[codigo |-> "IGV", tasa |-> 9]},
   {[codigo |-> "IGV", tasa |-> 9], [codigo |-> "IPM", tasa |-> 1]}}

AdValoremTables == {{}, {[hs10 |-> "2204210000", tasa |-> 3]}}

CrearCalls ==
  {[variant |-> "crear",
    input |-> [user_id |-> "ana", caso_estudio_id |-> 1, subpartida_hs10 |-> hs,
               moneda |-> "USD",
               valor_fob |-> fob, valor_flete |-> 10, valor_seguro |-> 5,
               ad_valorem_tasa_manual |-> av,
               habilitar_isc |-> hisc, isc_tasa_ingresada |-> Some(10),
               habilitar_igv |-> higv,
               habilitar_percepcion |-> hperc, percepcion_tasa_ingresada |-> Some(5),
               antidumping_ingresado |-> ad, compensatorio_ingresado |-> cvd,
               sda_ingresado |-> sda],
    prof |-> Absent, overrides |-> Absent,
    store |-> [impuesto |-> imp, ad_valorem |-> adv,
               importaciones |-> <<>>, importacion_tributos |-> <<>>]] :
     hs \in {"", "2204210000"}, fob \in {0, 40},
     av \in {Absent, Some(0), Some(3)},
     hisc \in BOOLEAN, higv \in BOOLEAN, hperc \in BOOLEAN,
     ad \in {0, 7}, cvd \in {0, 4}, sda \in {0, 2},
     imp \in ImpuestoTables, adv \in AdValoremTables}

\* The forms and stores of POST /quote-form: each override field absent, 0
\* or positive.
FormCalls ==
  {[variant |-> "form",
    input |-> [hs10 |-> hs, originCountry |-> "CL",
               fxRate |-> c.input.fxRate, cif |-> c.input.cif, fob |-> c.input.fob,
               freight |-> c.input.freight, insurance |-> c.input.insurance,
               useFTA |-> c.input.useFTA, quantity |-> c.input.quantity,
               isUsed |-> c.input.isUsed, importerProfile |-> c.input.importerProfile,
               alcoholDegree |-> c.input.alcoholDegree,
               override_adValoremRate |-> av, override_antidumpingUsd |-> ad,
               override_countervailingUsd |-> cvd, override_perceptionRate |-> perc,
               override_sdaUsd |-> sda],
    prof |-> Absent, overrides |-> Absent,
    store |-> l.store] :
     c \in {PlainCall, RichCall, [PlainCall EXCEPT !.input.cif = Absent]},
     l \in LoadContexts,
     hs \in {<<"2", "2", ".", "0", "4">>, <<"9", "9", "9", "9">>},
     av \in {Absent, Some(0), Some(400)},
     ad \in {Absent, Some(0), Some(30005)},
     cvd \in {Absent, Some(0)},
     perc \in {Absent, Some(0), Some(1000)},
     sda \in {Absent, Some(0), Some(20005)}}

Pending == [status |-> "pending"]

\* Bound of a session: the number of calls made one after the other.
MaxCalls == 3

\* The calls of a session: lines with and without notes, in both variants.
SessionCalls ==
  {PlainCall, RichCall,
   [RichCall EXCEPT !.prof.vatExempt = TRUE],
   [PlainCall EXCEPT !.input.cif = Some(0)],
   PlainUsdCall, RichUsdCall,
   [RichUsdCall EXCEPT !.overrides.igvEnabled = FALSE]}

\* ------------------------------------------------------------ state machine

Init ==
  /\ \/ \E c \in MultiCalls \cup UsdCalls \cup ImportacionCalls :
          /\ variant = c.variant
          /\ input = c.input
          /\ prof = c.prof
          /\ overrides = c.overrides
          /\ store = EmptyStore
     \/ \E c \in LoadCalls \cup AnalisisCalls \cup ComparativoCalls \cup CrearCalls
                  \cup FormCalls :
          /\ variant = c.variant
          /\ input = c.input
          /\ prof = c.prof
          /\ overrides = c.overrides
          /\ store = c.store
  /\ result = Pending
  /\ log = <<>>
  /\ queries = <<>>
  /\ procs = <<>>

\* Mutant: the notes array declared once at module level, so that a call
\* starts with the notes the calls before it have pushed.
NotesAtEntry_ModuleLevel(history) ==
  IF history = <<>> THEN <<>>
  ELSE LET last == history[Len(history)].result
       IN IF last.status = "ok" THEN last.notes ELSE <<>>

\* The notes array a call starts with: `const notes: string[] = []` is
\* created inside simulate, whatever calls were made before.
NotesAtEntry(history) == <<>>

\* The value a call returns (or the error it throws), its notes pushed onto
\* the array the call started with.
Returned(r, notesAtEntry) ==
  IF r.status = "ok" THEN [r EXCEPT !.notes = notesAtEntry \o @] ELSE r

\* The record of a completed call: the arguments as they were passed, as the
\* call left them, and the outcome.
Completed(after, outcome) ==
  [variant |-> variant, before |-> <<input, prof, overrides>>, after |-> after,
   result |-> outcome]

\* One call of the multi-country simulate.
Simulate ==
  /\ variant = "multi"
  /\ result = Pending
  /\ result' = Returned(simulate(input, prof, overrides), NotesAtEntry(log))
  /\ UNCHANGED <<variant, input, prof, overrides, store, queries, procs>>
  /\ log' = Append(log, Completed(<<input', prof', overrides'>>, result'))

\* One call of the USD-only simulate.
SimulateUsd ==
  /\ variant = "usd"
  /\ result = Pending
  /\ result' = Returned(simulateUsd(input, prof, overrides), NotesAtEntry(log))
  /\ UNCHANGED <<variant, input, prof, overrides, store, queries, procs>>
  /\ log' = Append(log, Completed(<<input', prof', overrides'>>, result'))

\* One call of ImportacionService.calcularImportacion.
CalcularImportacion ==
  /\ variant = "importacion"
  /\ result = Pending
  /\ result' = calcularImportacion(input, prof)
  /\ UNCHANGED <<variant, input, prof, overrides, store, queries, procs>>
  /\ log' = Append(log, Completed(<<input', prof', overrides'>>, result'))

\* One call of loadRuleProfile: one of the outcomes the queries allow.
LoadRuleProfile ==
  /\ variant = "load"
  /\ result = Pending
  /\ result' \in loadRuleProfile(input.hs10, input.originCountry, input.today, store)
  /\ queries' = LoadQueries(result')
  /\ UNCHANGED <<variant, input, prof, overrides, store, procs>>
  /\ log' = Append(log, Completed(<<input', prof', overrides'>>, result'))

\* One call of AnalisisService.obtenerAnalisisRentabilidad.
ObtenerAnalisisRentabilidad ==
  /\ variant = "analisis"
  /\ result = Pending
  /\ result' = obtenerAnalisisRentabilidad(input.casoId, input.userId, store)
  /\ queries' = AnalisisQueries(input.casoId, input.userId, store)
  /\ UNCHANGED <<variant, input, prof, overrides, store, procs>>
  /\ log' = Append(log, Completed(<<input', prof', overrides'>>, result'))

\* One call of AnalisisService.obtenerComparativo: one of the outcomes the
\* order of the fetched cases allows.
ObtenerComparativo ==
  /\ variant = "comparativo"
  /\ result = Pending
  /\ result' \in obtenerComparativo(input.userId, input.limite, store)
  /\ queries' = <<"casos_de_estudio">>
                  \o ComparativoQueries(result'.casos, input.userId, store)
  /\ UNCHANGED <<variant, input, prof, overrides, store, procs>>
  /\ log' = Append(log, Completed(<<input', prof', overrides'>>, result'))

\* One call of ImportacionService.crearImportacion: one of the outcomes the
\* store and the failures of its statements allow.
CrearImportacion ==
  /\ variant = "crear"
  /\ result = Pending
  /\ \E o \in crearImportacion(input.user_id, input, store) :
       /\ result' = o.result
       /\ input' = o.data
       /\ store' = o.store
       /\ queries' = o.queries
  /\ UNCHANGED <<variant, prof, overrides, procs>>
  /\ log' = Append(log, Completed(<<input', prof', overrides'>>, result'))

\* One request of POST /quote-form: one of the responses the store allows.
QuoteForm ==
  /\ variant = "form"
  /\ result = Pending
  /\ result' \in quoteForm(input, store)
  /\ queries' = (IF result' = InvalidForm THEN <<>>
                 ELSE IF result' = NotFound THEN LoadQueries(NotFound)
                 ELSE LoadQueries(MissingConfig))
  /\ UNCHANGED <<variant, input, prof, overrides, store, procs>>
  /\ log' = Append(log, Completed(<<input', prof', overrides'>>, result'))

Next ==
  Simulate \/ SimulateUsd \/ CalcularImportacion \/ LoadRuleProfile
    \/ ObtenerAnalisisRentabilidad \/ ObtenerComparativo \/ CrearImportacion
    \/ QuoteForm

Spec == Init /\ [][Next]_vars

\* A session: simulate is synchronous, so the calls of any number of requests
\* run one after the other, in any order and with any arguments.
SessionInit ==
  /\ \E c \in SessionCalls :
       /\ variant = c.variant
       /\ input = c.input
       /\ prof = c.prof
       /\ overrides = c.overrides
  /\ result = Pending
  /\ log = <<>>
  /\ store = EmptyStore
  /\ queries = <<>>
  /\ procs = <<>>

\* The next call of the session is made, with any arguments.
NextCall ==
  /\ result # Pending
  /\ Len(log) < MaxCalls
  /\ \E c \in SessionCalls :
       /\ variant' = c.variant
       /\ input' = c.input
       /\ prof' = c.prof
       /\ overrides' = c.overrides
  /\ result' = Pending
  /\ UNCHANGED <<log, store, queries, procs>>

SessionNext == Simulate \/ SimulateUsd \/ NextCall

SessionSpec == SessionInit /\ [][SessionNext]_vars

\* The requests GET /analysis/:caso_id and GET /ratios/:caso_id: the path
\* parameter as text, the query flag, the user of the bearer token if any,
\* over the stores of the analysis.
HttpRequests ==
  {[caso_id |-> id, incluir_detalles |-> det, user |-> user] :
     id \in {<<"1">>, <<"2">>, <<"3">>, <<"0">>, <<"a", "b", "c">>, <<"1", "x">>},
     det \in {"undefined", "true", "false", "yes"},
     user \in {Absent, Some("ana"), Some("luis")}}

\* The stores of the requests: the case of ana with figures, the same case
\* with an operating expense in USD, and no rows at all.
HttpStores ==
  {PlainAnalisisCall.store,
   [PlainAnalisisCall.store EXCEPT
      !.gastos = <<[caso_estudio_id |-> 1, clasificacion_nombre |-> "Operativo",
                    monto |-> 300, moneda |-> "USD"]>>],
   [PlainAnalisisCall.store EXCEPT
      !.exportaciones = <<>>, !.importaciones = <<>>, !.gastos = <<>>]}

ResponseInit ==
  /\ variant = "http"
  /\ input \in HttpRequests
  /\ prof = Absent /\ overrides = Absent
  /\ store \in HttpStores
  /\ result = Pending
  /\ log = <<>>
  /\ queries = <<>>
  /\ \E h \in {"obtenerAnalisisCompleto", "obtenerRatiosRentabilidad"} :
       procs = <<[handler |-> h, pc |-> "received", responses |-> <<>>]>>

\* GET /analysis/:caso_id runs to its end: requireAuth, then
\* obtenerAnalisisCompleto, sending the responses they send.
ObtenerAnalisisCompleto ==
  /\ procs[1].handler = "obtenerAnalisisCompleto"
  /\ procs[1].pc = "received"
  /\ procs' = <<[procs[1] EXCEPT
                   !.pc = "finished",
                   !.responses = IF RequireAuthResponses(input) # <<>>
                                   THEN RequireAuthResponses(input)
                                 ELSE CompletoResponses(input, store)]>>
  /\ UNCHANGED <<variant, input, prof, overrides, result, log, store, queries>>

\* GET /ratios/:caso_id runs to its end: requireAuth, then
\* obtenerRatiosRentabilidad, sending the responses they send.
ObtenerRatiosRentabilidad ==
  /\ procs[1].handler = "obtenerRatiosRentabilidad"
  /\ procs[1].pc = "received"
  /\ procs' = <<[procs[1] EXCEPT
                   !.pc = "finished",
                   !.responses = IF RequireAuthResponses(input) # <<>>
                                   THEN RequireAuthResponses(input)
                                 ELSE RatiosResponses(input, store)]>>
  /\ UNCHANGED <<variant, input, prof, overrides, result, log, store, queries>>

ResponseNext == ObtenerAnalisisCompleto \/ ObtenerRatiosRentabilidad

\* Node runs every handler that was started to its end.
ResponseSpec == ResponseInit /\ [][ResponseNext]_vars /\ WF_vars(ResponseNext)

\* Bound of the authentication runs: the number of requests.
MaxRequests == 3

\* The sessions at the start: one or two logged-in sessions, whose refresh
\* tokens are the first tokens generated.
AuthStores ==
  {[auth_sessions |-> [id \in 1..n |->
                         [refresh_token_hash |-> sha256(id), revoked |-> FALSE]],
    generated |-> n] : n \in 1..2}

\* The refresh tokens a client can present: those handed out at login or in
\* a response, and one that was never issued (0).
KnownTokens ==
  {0} \cup DOMAIN store.auth_sessions
      \cup {procs[i].responses[1].refresh_token :
              i \in {j \in DOMAIN procs : /\ procs[j].responses # <<>>
                                          /\ procs[j].responses[1].status = 200}}

\* The requests answered so far.
Answered == {i \in DOMAIN procs : procs[i].responses # <<>>}

AuthInit ==
  /\ variant = "auth"
  /\ input = Absent /\ prof = Absent /\ overrides = Absent
  /\ store \in AuthStores
  /\ result = Pending
  /\ log = <<>>
  /\ queries = <<>>
  /\ procs = <<>>

\* A request POST /refresh or POST /logout arrives with a refresh token.
Arrive ==
  /\ Len(procs) < MaxRequests
  /\ \E kind \in {"refresh", "logout"}, token \in KnownTokens :
       procs' = Append(procs, [kind |-> kind, token |-> token, pc |-> "start",
                               sess |-> Absent, after |-> Answered,
                               responses |-> <<>>])
  /\ UNCHANGED <<variant, input, prof, overrides, result, log, store, queries>>

\* POST /refresh up to its second await: the session is looked up by the
\* hash of the token; 401 when there is none.
RefreshSelect ==
  \E i \in DOMAIN procs :
    /\ procs[i].kind = "refresh" /\ procs[i].pc = "start"
    /\ LET found == SessionsByHash(store.auth_sessions, sha256(procs[i].token))
       IN IF found = {}
            THEN procs' = [procs EXCEPT ![i].pc = "finished",
                                        ![i].responses = <<[status |-> 401]>>]
            ELSE \E id \in found :
                   procs' = [procs EXCEPT ![i].pc = "update", ![i].sess = Some(id)]
    /\ UNCHANGED <<variant, input, prof, overrides, result, log, store, queries>>

\* POST /refresh from its second await: a new token is generated, its hash
\* replaces the hash of the session found, and the new token is returned.
RefreshUpdate ==
  \E i \in DOMAIN procs :
    /\ procs[i].kind = "refresh" /\ procs[i].pc = "update"
    /\ LET new == generateRefreshToken(store.generated + 1)
       IN /\ store' = [store EXCEPT
                         !.generated = new.token,
                         !.auth_sessions =
                            RotateSession(@, procs[i].sess[1], new.hash)]
          /\ procs' = [procs EXCEPT
                         ![i].pc = "finished",
                         ![i].responses = <<[status |-> 200,
                                             refresh_token |-> new.token]>>]
    /\ UNCHANGED <<variant, input, prof, overrides, result, log, queries>>

\* POST /logout: the session with the hash of the token is revoked; 204.
Logout ==
  \E i \in DOMAIN procs :
    /\ procs[i].kind = "logout" /\ procs[i].pc = "start"
    /\ store' = [store EXCEPT
                   !.auth_sessions = RevokeByHash(@, sha256(procs[i].token))]
    /\ procs' = [procs EXCEPT ![i].pc = "finished",
                              ![i].responses = <<[status |-> 204]>>]
    /\ UNCHANGED <<variant, input, prof, overrides, result, log, queries>>

AuthNext == Arrive \/ RefreshSelect \/ RefreshUpdate \/ Logout

\* Requests run concurrently: the steps of different requests interleave at
\* every await.
AuthSpec == AuthInit /\ [][AuthNext]_vars

Done(v) == variant = v /\ result.status = "ok"

HasNote(text) == \E i \in 1..Len(result.notes) : result.notes[i] = <<text>>

\* ------------------------------------------------------------------ claims

\* C1: for every accepted input of simulate (both variants) the customs debt
\* equals duty + excise total + VAT total + trade-remedy total + special fee,
\* to the cent.
C1_DebtIsSumOfParts ==
  (Done("multi") \/ Done("usd")) =>
    result.deuda_aduanera =
      result.arancel.amount + result.isc.total + result.igv.total
        + result.trade_remedies.total + result.sda.amount

\* C1 witness: a multi-country result in which all five parts are charged.
C1_Witness ==
  /\ Done("multi")
  /\ result.arancel.amount > 0 /\ result.isc.total > 0 /\ result.igv.total > 0
  /\ Len(result.trade_remedies.items) >= 2 /\ result.sda.amount > 0

\* C2: for every accepted input of simulate (both variants) the amount payable
\* at the border equals customs debt + perception amount; with perception
\* disabled or at rate 0 it equals the customs debt.
C2_PaymentIsDebtPlusPerception ==
  (Done("multi") \/ Done("usd")) =>
    /\ result.pago_en_frontera = result.deuda_aduanera + result.percepcion.amount
    /\ (result.percepcion.rate = 0 \/ (variant = "usd" /\ ~overrides.perceptionEnabled))
         => result.pago_en_frontera = result.deuda_aduanera

\* C2 witness: a multi-country result with a perception amount on top of a debt.
C2_Witness ==
  /\ Done("multi")
  /\ result.percepcion.amount > 0 /\ result.deuda_aduanera > 0
  /\ result.pago_en_frontera > result.deuda_aduanera

\* The value basis the specification requires: a direct CIF value, or all
\* three of FOB, freight and insurance.
HasValueBasis(in) ==
  IsPresent(in.cif) \/ (IsPresent(in.fob) /\ IsPresent(in.freight) /\ IsPresent(in.insurance))

\* C3: simulate fails with InvalidInput exactly when the input supplies neither
\* a direct CIF value nor all three of FOB, freight and insurance (or, in the
\* multi-country variant, no exchange rate); an input with only some of the
\* three components and no CIF is rejected.  Stated for the inputs whose
\* supplied amounts do not add up to zero and whose exchange rate, if supplied,
\* is not zero, so that a zero is never what decides the outcome.
C3_RejectsExactlyWithoutBasis ==
  ((variant = "multi" \/ variant = "usd") /\ result # Pending
     /\ CifUsdOf(input) # 0
     /\ (variant = "multi" /\ IsPresent(input.fxRate) => input.fxRate[1] # 0)) =>
    (result = InvalidInput
       <=> (~HasValueBasis(input) \/ (variant = "multi" /\ ~IsPresent(input.fxRate))))

\* C4: the applied duty rate is the override when present; else the
\* preferential rate when useFTA is set, a preferential rate exists and is
\* lower than the MFN rate (a preference note is then recorded); else the MFN
\* rate.  The duty is the customs value base times that rate, rounded to cents.
C4_DutyRateSelection ==
  Done("multi") =>
    LET preferred == /\ ~IsPresent(overrides.adValoremRate)
                     /\ input.useFTA /\ IsPresent(prof.ftaRate)
                     /\ prof.ftaRate[1] < prof.mfnRate
    IN /\ result.arancel.rate =
            IF IsPresent(overrides.adValoremRate) THEN overrides.adValoremRate[1]
            ELSE IF preferred THEN prof.ftaRate[1]
            ELSE prof.mfnRate
       /\ preferred => HasNote("Se aplico preferencia arancelaria (TLC).")
       /\ result.arancel.base = result.cif_pen
       /\ result.arancel.amount = round2(result.cif_pen * result.arancel.rate, 10000)

\* C4 witness: a preference applied (lower FTA rate, flag set, no override).
C4_Witness ==
  /\ Done("multi")
  /\ ~IsPresent(overrides.adValoremRate) /\ input.useFTA
  /\ IsPresent(prof.ftaRate) /\ prof.ftaRate[1] < prof.mfnRate
  /\ result.arancel.rate = prof.ftaRate[1] /\ result.arancel.amount > 0

\* C5: the two VAT-family components are their rates (16% and 2%; the
\* profile's rates in the USD-only variant) times igv.base = customs value
\* base + duty + excise total, each rounded to cents; for a VAT-exempt line
\* (multi-country) or a disabled VAT toggle (USD-only) both and their total are
\* 0 and a note is recorded, while excise total and igv.base are what they
\* would be without the exemption.
C5_VatOnBaseDutyExcise ==
  /\ Done("multi") =>
       LET plain == simulate(input, [prof EXCEPT !.vatExempt = FALSE], overrides)
       IN /\ result.igv.base = result.cif_pen + result.arancel.amount + result.isc.total
          /\ result.igv.total = result.igv.igv16 + result.igv.ipm2
          /\ IF prof.vatExempt
               THEN /\ result.igv.igv16 = 0 /\ result.igv.ipm2 = 0 /\ result.igv.total = 0
                    /\ HasNote("Subpartida exonerada de IGV/IPM vigente.")
               ELSE /\ result.igv.igv16 = round2(result.igv.base * 1600, 10000)
                    /\ result.igv.ipm2 = round2(result.igv.base * 200, 10000)
          /\ result.isc.total = plain.isc.total
          /\ result.igv.base = plain.igv.base
  /\ Done("usd") =>
       LET plain == simulateUsd(input, prof, [overrides EXCEPT !.igvEnabled = TRUE])
       IN /\ result.igv.base = result.cif_pen + result.arancel.amount + result.isc.total
          /\ result.igv.total = result.igv.igv16 + result.igv.ipm2
          /\ IF ~overrides.igvEnabled
               THEN /\ result.igv.igv16 = 0 /\ result.igv.ipm2 = 0 /\ result.igv.total = 0
                    /\ HasNote("IGV/IPM deshabilitado por el usuario.")
               ELSE /\ result.igv.igv16 = round2(result.igv.base * prof.igvRate, 10000)
                    /\ result.igv.ipm2 = round2(result.igv.base * prof.ipmRate, 10000)
          /\ result.isc.total = plain.isc.total
          /\ result.igv.base = plain.igv.base

\* C5 witness: a VAT-exempt line that still carries excise and trade remedies.
C5_Witness ==
  /\ Done("multi")
  /\ prof.vatExempt /\ result.isc.total > 0 /\ result.trade_remedies.total > 0
  /\ result.igv.total = 0 /\ result.igv.base > result.cif_pen + result.arancel.amount

\* C6: in the USD-only simulate and in calcularImportacion a disabled excise
\* toggle forces the excise total to exactly 0 whatever excise rate is supplied,
\* and the VAT base is then customs value base + duty.
C6_ExciseToggleOff ==
  /\ (Done("usd") /\ ~overrides.iscEnabled) =>
       /\ result.isc.total = 0
       /\ result.igv.base = result.cif_pen + result.arancel.amount
  /\ (Done("importacion") /\ ~input.habilitar_isc) =>
       LET base == result.valor_cif + result.monto_ad_valorem
       IN /\ result.monto_isc = 0
          /\ result.monto_igv =
               IF input.habilitar_igv THEN TimesRate(base, prof.igv) ELSE 0
          /\ result.monto_ipm =
               IF input.habilitar_igv THEN TimesRate(base, prof.ipm) ELSE 0
          /\ \A i \in 1..Len(result.tributos) :
               /\ result.tributos[i].concepto # "isc"
               /\ result.tributos[i].concepto \in {"igv", "ipm"}
                    => result.tributos[i].base_imponible = base

\* C6 witness: the USD-only simulate with the toggle off and a positive excise
\* rate supplied, on a line that pays duty and VAT.
C6_Witness ==
  /\ Done("usd")
  /\ ~overrides.iscEnabled /\ IsPresent(overrides.iscRate) /\ overrides.iscRate[1] > 0
  /\ result.arancel.amount > 0 /\ result.igv.total > 0 /\ result.isc.total = 0

\* C7: with a mixed excise rule isc.total is round2(quantity x per-unit amount)
\* + round2((customs value base + duty) x ad-valorem rate), each rounded to
\* cents before summing; with an ad_valorem rule it is round2((base + duty) x
\* rate), with an especifico rule round2(quantity x per-unit amount); with no
\* rule or any other regime it is 0.
C7_ExciseByRegime ==
  Done("multi") =>
    LET qty == OrElse(input.quantity, 0)
        base == result.cif_pen + result.arancel.amount
        system == IF IsPresent(prof.iscRule) THEN prof.iscRule[1].system ELSE "norule"
        rule == prof.iscRule[1]
    IN CASE system = "mixed" ->
              result.isc.total =
                round2(qty * result.isc.perUnit, 10)
                  + round2(base * OrElse(rule.adValRate, 0), 10000)
         [] system = "ad_valorem" ->
              result.isc.total = round2(base * OrElse(rule.adValRate, 0), 10000)
         [] system = "especifico" ->
              result.isc.total = round2(qty * OrElse(rule.specificAmount, 0), 10)
         [] OTHER -> result.isc.total = 0

\* C7 witness: mixed excise, quantity 100 at 2.50 per unit (specific component
\* 250.00) plus a positive ad-valorem component.
C7_Witness ==
  /\ Done("multi")
  /\ IsPresent(prof.iscRule) /\ prof.iscRule[1].system = "mixed"
  /\ input.quantity = Some(1000) /\ result.isc.perUnit = 250
  /\ result.isc.specific = 25000 /\ result.isc.ad_val > 0
  /\ result.isc.total = 25000 + result.isc.ad_val

\* The flat per-unit amount of a rule (0 when it has none).
FlatPerUnit(rule) == OrElse(rule.specificAmount, 0)

\* Whether band i of the list can serve strength deg.
BandServes(bands, i, deg) == IsPresent(bands[i].max_abv) /\ deg <= bands[i].max_abv[1]

\* The per-unit amount that follows from picking band i first in list order.
PerUnitIsFromFirstBand(rule, deg, perUnit) ==
  LET bands == rule.params[1]
  IN \/ /\ \A i \in 1..Len(bands) : ~BandServes(bands, i, deg)
        /\ perUnit = FlatPerUnit(rule)
     \/ \E i \in 1..Len(bands) :
          /\ BandServes(bands, i, deg)
          /\ \A j \in 1..(i - 1) : ~BandServes(bands, j, deg)
          /\ perUnit = OrElse(bands[i].specific_per_l_pen, FlatPerUnit(rule))

IsMixedCall == Done("multi") /\ IsPresent(prof.iscRule) /\ prof.iscRule[1].system = "mixed"

\* C8 (as claimed): the per-unit amount of a mixed excise comes from the first
\* band, in list order, whose maximum strength is >= the supplied strength;
\* when no band matches, or when no strength is supplied, the flat per-unit
\* amount is used instead of any band amount.
C8_FlatWhenNoStrength ==
  IsMixedCall =>
    LET rule == prof.iscRule[1]
    IN IF ~IsPresent(input.alcoholDegree) \/ ~IsPresent(rule.params)
         THEN result.isc.perUnit = FlatPerUnit(rule)
         ELSE PerUnitIsFromFirstBand(rule, input.alcoholDegree[1], result.isc.perUnit)

\* C8 (amended): a strength that is not supplied counts as 0; the per-unit
\* amount comes from the first band, in list order, whose maximum strength is a
\* number >= that strength; the flat per-unit amount (0 if the rule has none)
\* is used when the rule has no band list, no band matches, or the matching
\* band carries no amount.
C8_FirstBandStrengthDefaultsToZero ==
  IsMixedCall =>
    LET rule == prof.iscRule[1]
    IN IF ~IsPresent(rule.params)
         THEN result.isc.perUnit = FlatPerUnit(rule)
         ELSE PerUnitIsFromFirstBand(rule, OrElse(input.alcoholDegree, 0),
                                     result.isc.perUnit)

\* C8 witness: no strength supplied, and the amount of a band (not the flat
\* amount) is charged; the list has a later band that would serve as well.
C8_Witness ==
  /\ IsMixedCall
  /\ ~IsPresent(input.alcoholDegree)
  /\ IsPresent(prof.iscRule[1].params) /\ Len(prof.iscRule[1].params[1]) = 2
  /\ BandServes(prof.iscRule[1].params[1], 1, 0)
  /\ BandServes(prof.iscRule[1].params[1], 2, 0)
  /\ prof.iscRule[1].params[1][1].specific_per_l_pen = Some(result.isc.perUnit)
  /\ prof.iscRule[1].params[1][2].specific_per_l_pen # Some(result.isc.perUnit)
  /\ result.isc.perUnit # FlatPerUnit(prof.iscRule[1])
  /\ input.quantity = Some(1000) /\ result.isc.specific = 100 * result.isc.perUnit

\* The default rates the catalogue advertises per importer profile
\* (GET /api/catalog/importer-profiles).
ImporterProfileCatalog ==
  [normal |-> 350, first_import |-> 1000, no_habido |-> 1000, public |-> 0, amazon |-> 0]

\* C9: without a perception override (and, USD-only, with perception enabled)
\* rate and rule label follow a strict precedence over importer profile and
\* used-goods flag: public or amazon 0% even for used goods; else first_import
\* or no_habido 10% even for used goods; else used goods 5%; else 3.5%.
C9_PerceptionPrecedence ==
  ((Done("multi") \/ (Done("usd") /\ overrides.perceptionEnabled))
     /\ ~IsPresent(overrides.perceptionRate)) =>
    LET ip == input.importerProfile
    IN /\ CASE ip \in {"public", "amazon"} ->
                 /\ result.percepcion.rate = 0
                 /\ result.percepcion.rule = "Excluido por regimen especial"
            [] ip \in {"first_import", "no_habido"} ->
                 /\ result.percepcion.rate = 1000
                 /\ result.percepcion.rule = "Primera importacion/No habido"
            [] OTHER ->
                 IF input.isUsed
                   THEN /\ result.percepcion.rate = 500
                        /\ result.percepcion.rule = "Bien usado"
                   ELSE /\ result.percepcion.rate = 350
                        /\ result.percepcion.rule = "Regimen general"
       /\ (ip \in DOMAIN ImporterProfileCatalog /\ ~input.isUsed)
            => result.percepcion.rate = ImporterProfileCatalog[ip]

\* C9 witness: a first-time importer of used goods is charged 10%, not 5%.
C9_Witness ==
  /\ Done("multi")
  /\ ~IsPresent(overrides.perceptionRate)
  /\ input.importerProfile = "first_import" /\ input.isUsed
  /\ result.percepcion.rate = 1000 /\ result.percepcion.amount > 0

\* C10: whenever perception is computed, its base is igv.base + igv16 + ipm2 +
\* trade-remedy total and its amount round2(base x rate), whatever the VAT
\* stage did: with VAT exempt or disabled the base is customs value base +
\* duty + excise + trade remedies; an explicit perceptionRate replaces the
\* default rate and the rule label becomes an override label.
C10_PerceptionBaseAndOverride ==
  (Done("multi") \/ (Done("usd") /\ overrides.perceptionEnabled)) =>
    LET vatOff == IF variant = "multi" THEN prof.vatExempt ELSE ~overrides.igvEnabled
    IN /\ result.percepcion.base =
            result.igv.base + result.igv.igv16 + result.igv.ipm2
              + result.trade_remedies.total
       /\ result.percepcion.amount =
            round2(result.percepcion.base * result.percepcion.rate, 10000)
       /\ vatOff => result.percepcion.base =
            result.cif_pen + result.arancel.amount + result.isc.total
              + result.trade_remedies.total
       /\ IsPresent(overrides.perceptionRate) =>
            /\ result.percepcion.rate = overrides.perceptionRate[1]
            /\ result.percepcion.rule \in
                 {"Percepcion override", "Percepcion override: 0%", "Override de percepcion"}
       /\ ~IsPresent(overrides.perceptionRate) =>
            result.percepcion.rule \notin
              {"Percepcion override", "Percepcion override: 0%", "Override de percepcion"}

\* C10 witness: a VAT-exempt line with trade remedies and a perception
\* override: perception is still charged, on a base that holds the remedies.
C10_Witness ==
  /\ Done("multi")
  /\ prof.vatExempt /\ result.trade_remedies.total > 0
  /\ IsPresent(overrides.perceptionRate) /\ overrides.perceptionRate[1] > 0
  /\ result.percepcion.amount > 0
  /\ result.percepcion.base > result.igv.base

\* Is the override amount one that adds a trade-remedy item (strictly positive)?
IsPositive(x) == IsPresent(x) /\ x[1] > 0

\* C11: trade_remedies.items of the multi-country simulate holds one item per
\* rule-profile remedy, in order (source db, amount round2(customs value base x
\* rate) for ad_valorem, round2(quantity x per-unit amount) for specific), then
\* one item per strictly positive antidumping / countervailing override
\* (source override, amount converted with the exchange rate); total is the
\* sum of the item amounts and applied is true exactly when there is an item.
C11_RemedyItems ==
  Done("multi") =>
    LET items == result.trade_remedies.items
        n == Len(prof.tradeRemedies)
        ad == IsPositive(overrides.antidumpingUsd)
        cvd == IsPositive(overrides.countervailingUsd)
        adAt == n + 1
        cvdAt == n + (IF ad THEN 1 ELSE 0) + 1
    IN /\ Len(items) = n + (IF ad THEN 1 ELSE 0) + (IF cvd THEN 1 ELSE 0)
       /\ \A i \in 1..n :
            LET r == prof.tradeRemedies[i]
            IN /\ items[i].source = "db"
               /\ items[i].type = r.type /\ items[i].mode = r.mode
               /\ r.mode = "ad_valorem" =>
                    items[i].amount = round2(result.cif_pen * r.rateOrAmount, 10000)
               /\ r.mode = "specific" =>
                    items[i].amount = round2(OrElse(input.quantity, 0) * r.rateOrAmount, 10)
       /\ ad => items[adAt] =
                  [type |-> "AD", mode |-> "specific", source |-> "override",
                   amount |-> round2(overrides.antidumpingUsd[1] * input.fxRate[1], 1000)]
       /\ cvd => items[cvdAt] =
                  [type |-> "CVD", mode |-> "specific", source |-> "override",
                   amount |-> round2(overrides.countervailingUsd[1] * input.fxRate[1], 1000)]
       /\ result.trade_remedies.total = SumAmounts(items)
       /\ result.trade_remedies.applied <=> (Len(items) > 0)

\* C11 witness: two rule-profile remedies (one ad valorem, one specific with a
\* quantity) followed by the item of a positive antidumping override converted
\* at an exchange rate other than 1.
C11_Witness ==
  /\ Done("multi")
  /\ Len(prof.tradeRemedies) = 2
  /\ prof.tradeRemedies[1].mode = "ad_valorem" /\ prof.tradeRemedies[2].mode = "specific"
  /\ IsPresent(input.quantity)
  /\ IsPositive(overrides.antidumpingUsd) /\ input.fxRate[1] = 375
  /\ Len(result.trade_remedies.items) = 3
  /\ result.trade_remedies.items[3].source = "override"
  /\ \A i \in 1..3 : result.trade_remedies.items[i].amount > 0

\* The two rules of C12 for the special fee: the override rule and the
\* threshold rule.
SdaFollowsRules ==
  /\ IsPresent(overrides.sdaUsd) =>
       /\ result.sda.applies <=> (overrides.sdaUsd[1] > 0)
       /\ result.sda.amount = round2(overrides.sdaUsd[1] * input.fxRate[1], 1000)
  /\ ~IsPresent(overrides.sdaUsd) =>
       LET over == result.cif_pen > prof.adminFees.uit * prof.adminFees.thresholdUIT
       IN /\ result.sda.applies <=> over
          /\ result.sda.amount =
               IF over THEN round2(prof.adminFees.uit * prof.adminFees.sdaRate, 10000)
               ELSE 0

\* C12: in the multi-country simulate, a supplied special-fee override applies
\* exactly when positive and its amount is the override converted with the
\* exchange rate; without an override the fee applies exactly when the customs
\* value base strictly exceeds uit x thresholdUIT and is then
\* round2(uit x sdaRate), else 0; and whenever sda.applies is false, sda.amount
\* is 0.
C12_SpecialFee ==
  Done("multi") =>
    /\ SdaFollowsRules
    /\ ~result.sda.applies => result.sda.amount = 0

\* C13: a present override wins even when it is 0 (adValoremRate = 0: duty 0;
\* perceptionRate = 0: perception 0; sdaUsd = 0: no special fee, even above
\* the threshold); an absent override leaves the policy default in force.
C13_ZeroOverrideWins ==
  /\ Done("multi") =>
       /\ overrides.adValoremRate = Some(0) =>
            result.arancel.rate = 0 /\ result.arancel.amount = 0
       /\ overrides.perceptionRate = Some(0) =>
            result.percepcion.rate = 0 /\ result.percepcion.amount = 0
       /\ overrides.sdaUsd = Some(0) =>
            ~result.sda.applies /\ result.sda.amount = 0
       /\ ~IsPresent(overrides.adValoremRate) =>
            result.arancel.rate =
              IF input.useFTA /\ IsPresent(prof.ftaRate) /\ prof.ftaRate[1] < prof.mfnRate
                THEN prof.ftaRate[1] ELSE prof.mfnRate
       /\ ~IsPresent(overrides.perceptionRate) =>
            result.percepcion.rate =
              defaultPerception(input.importerProfile, input.isUsed).rate
       /\ ~IsPresent(overrides.sdaUsd) =>
            (result.sda.applies <=>
               result.cif_pen > prof.adminFees.uit * prof.adminFees.thresholdUIT)
  /\ Done("usd") =>
       /\ (overrides.perceptionEnabled /\ overrides.perceptionRate = Some(0)) =>
            result.percepcion.rate = 0 /\ result.percepcion.amount = 0
       /\ (overrides.perceptionEnabled /\ ~IsPresent(overrides.perceptionRate)) =>
            result.percepcion.rate = defPerc(input).rate
       /\ overrides.sdaUsd = Some(0) =>
            ~result.sda.applied /\ result.sda.amount = 0

\* C13 witness: the three overrides are 0 on a line whose defaults are all
\* non-zero (preferential duty 3%, perception 5%, customs value above 3 UIT):
\* no duty, no perception, no special fee.
C13_Witness ==
  /\ Done("multi")
  /\ overrides.adValoremRate = Some(0) /\ overrides.perceptionRate = Some(0)
  /\ overrides.sdaUsd = Some(0)
  /\ prof.mfnRate > 0 /\ IsPresent(prof.ftaRate) /\ prof.ftaRate[1] > 0
  /\ defaultPerception(input.importerProfile, input.isUsed).rate > 0
  /\ result.cif_pen > prof.adminFees.uit * prof.adminFees.thresholdUIT
  /\ result.arancel.amount = 0 /\ result.percepcion.amount = 0
  /\ ~result.sda.applies /\ result.sda.amount = 0

\* x (whole cents) is the real number num/den rounded to the nearest cent, a
\* half rounded up: x - 1/2 <= num/den < x + 1/2 (den is 1 or even).
IsHalfUp(x, num, den) ==
  /\ den * x <= num + den \div 2
  /\ num + den \div 2 < den * (x + 1)

\* Every monetary amount of the multi-country result is the half-up rounding
\* of its formula over the rounded amounts of the result itself.
RoundedPerStageMulti ==
  LET r == result
      qty == OrElse(input.quantity, 0)
      n == Len(prof.tradeRemedies)
      items == r.trade_remedies.items
  IN /\ IsHalfUp(r.cif_pen, CifUsdOf(input) * input.fxRate[1], 1000)
     /\ IsHalfUp(r.arancel.amount, r.cif_pen * r.arancel.rate, 10000)
     /\ r.isc.mode \in {"ad_valorem", "mixed"} =>
          IsHalfUp(r.isc.ad_val,
                   (r.cif_pen + r.arancel.amount) * OrElse(prof.iscRule[1].adValRate, 0),
                   10000)
     /\ r.isc.mode \in {"especifico", "mixed"} =>
          IsHalfUp(r.isc.specific, qty * r.isc.perUnit, 10)
     /\ r.isc.total = r.isc.specific + r.isc.ad_val
     /\ \A i \in 1..n :
          IF prof.tradeRemedies[i].mode = "ad_valorem"
            THEN IsHalfUp(items[i].amount,
                          r.cif_pen * prof.tradeRemedies[i].rateOrAmount, 10000)
            ELSE IsHalfUp(items[i].amount, qty * prof.tradeRemedies[i].rateOrAmount, 10)
     /\ \A i \in (n + 1)..Len(items) :
          LET usd == IF items[i].type = "AD" THEN overrides.antidumpingUsd[1]
                     ELSE overrides.countervailingUsd[1]
          IN IsHalfUp(items[i].amount, usd * input.fxRate[1], 1000)
     /\ IsHalfUp(r.igv.base, r.cif_pen + r.arancel.amount + r.isc.total, 1)
     /\ ~prof.vatExempt =>
          /\ IsHalfUp(r.igv.igv16, r.igv.base * 1600, 10000)
          /\ IsHalfUp(r.igv.ipm2, r.igv.base * 200, 10000)
     /\ IsHalfUp(r.igv.total, r.igv.igv16 + r.igv.ipm2, 1)
     /\ IsHalfUp(r.percepcion.base,
                 r.igv.base + r.igv.igv16 + r.igv.ipm2 + r.trade_remedies.total, 1)
     /\ IsHalfUp(r.percepcion.amount, r.percepcion.base * r.percepcion.rate, 10000)
     /\ IsPresent(overrides.sdaUsd) =>
          IsHalfUp(r.sda.amount, overrides.sdaUsd[1] * input.fxRate[1], 1000)
     /\ (~IsPresent(overrides.sdaUsd) /\ r.sda.applies) =>
          IsHalfUp(r.sda.amount, prof.adminFees.uit * prof.adminFees.sdaRate, 10000)
     /\ IsHalfUp(r.deuda_aduanera,
                 r.arancel.amount + r.isc.total + r.igv.total + r.trade_remedies.total
                   + r.sda.amount, 1)
     /\ IsHalfUp(r.pago_en_frontera, r.deuda_aduanera + r.percepcion.amount, 1)

\* The same for the USD-only result.
RoundedPerStageUsd ==
  LET r == result
      items == r.trade_remedies.items
  IN /\ IsHalfUp(r.cif_pen, CifUsdOf(input), 10)
     /\ IsHalfUp(r.arancel.amount, r.cif_pen * r.arancel.rate, 10000)
     /\ overrides.iscEnabled =>
          IsHalfUp(r.isc.total,
                   (r.cif_pen + r.arancel.amount) * OrElse(overrides.iscRate, 0), 10000)
     /\ \A i \in 1..Len(items) :
          LET usd == IF items[i].type = "AD" THEN overrides.antidumpingUsd[1]
                     ELSE overrides.countervailingUsd[1]
          IN IsHalfUp(items[i].amount, usd, 10)
     /\ IsHalfUp(r.igv.base, r.cif_pen + r.arancel.amount + r.isc.total, 1)
     /\ overrides.igvEnabled =>
          /\ IsHalfUp(r.igv.igv16, r.igv.base * prof.igvRate, 10000)
          /\ IsHalfUp(r.igv.ipm2, r.igv.base * prof.ipmRate, 10000)
     /\ IsHalfUp(r.igv.total, r.igv.igv16 + r.igv.ipm2, 1)
     /\ overrides.perceptionEnabled =>
          /\ IsHalfUp(r.percepcion.base,
                      r.igv.base + r.igv.igv16 + r.igv.ipm2 + r.trade_remedies.total, 1)
          /\ IsHalfUp(r.percepcion.amount, r.percepcion.base * r.percepcion.rate, 10000)
     /\ r.sda.applied => IsHalfUp(r.sda.amount, overrides.sdaUsd[1], 10)
     /\ IsHalfUp(r.deuda_aduanera,
                 r.arancel.amount + r.isc.total + r.igv.total + r.trade_remedies.total
                   + r.sda.amount, 1)
     /\ IsHalfUp(r.pago_en_frontera, r.deuda_aduanera + r.percepcion.amount, 1)

\* C14: every monetary amount simulate produces is a whole number of cents,
\* the round-half-up of its formula evaluated on the already-rounded outputs
\* of the earlier stages.
C14_RoundedPerStage ==
  /\ Done("multi") => RoundedPerStageMulti
  /\ Done("usd") => RoundedPerStageUsd

\* C14 witness: a call whose customs value has a fraction of a cent that is
\* rounded up, and whose VAT total, the sum of the two rounded components,
\* differs from the 18% of the VAT base rounded once.
C14_Witness ==
  /\ Done("multi")
  /\ 1000 * result.cif_pen > CifUsdOf(input) * input.fxRate[1]
  /\ ~prof.vatExempt
  /\ ~IsHalfUp(result.igv.total, result.igv.base * 1800, 10000)
  /\ result.percepcion.amount > 0

BaseSteps == {1, 5, 10, 1000, 100000}

\* The current call with its customs value raised by d, all else equal.
RaisedBy(d) == [input EXCEPT !.cif = Some(CifUsdOf(input) + d)]

\* hi is no smaller than lo in customs value base, duty, ad-valorem excise,
\* VAT total and perception amount.
NoSmaller(hi, lo, hiExcise, loExcise) ==
  /\ hi.status = "ok"
  /\ hi.cif_pen >= lo.cif_pen
  /\ hi.arancel.amount >= lo.arancel.amount
  /\ hiExcise >= loExcise
  /\ hi.igv.total >= lo.igv.total
  /\ hi.percepcion.amount >= lo.percepcion.amount

\* C16: for two inputs of simulate that differ only in the customs value base
\* (b1 <= b2), with the same profile, overrides and non-negative rates, duty,
\* ad-valorem excise, VAT total and perception amount for b2 are each >= the
\* value for b1, rounding included.
C16_MonotoneInBase ==
  /\ Done("multi") =>
       \A d \in BaseSteps :
         LET hi == simulate(RaisedBy(d), prof, overrides)
         IN NoSmaller(hi, result, hi.isc.ad_val, result.isc.ad_val)
  /\ Done("usd") =>
       \A d \in BaseSteps :
         LET hi == simulateUsd(RaisedBy(d), prof, overrides)
         IN NoSmaller(hi, result, hi.isc.total, result.isc.total)

\* C16 witness: a call with an ad-valorem excise for which a base larger by a
\* thousandth changes no amount, and a base larger by 100.00 raises duty,
\* excise, VAT and perception.
C16_Witness ==
  /\ Done("multi")
  /\ result.isc.ad_val > 0
  /\ LET near == simulate(RaisedBy(1), prof, overrides)
         far == simulate(RaisedBy(100000), prof, overrides)
     IN /\ near.cif_pen = result.cif_pen
        /\ near.percepcion.amount = result.percepcion.amount
        /\ far.arancel.amount > result.arancel.amount
        /\ far.isc.ad_val > result.isc.ad_val
        /\ far.igv.total > result.igv.total
        /\ far.percepcion.amount > result.percepcion.amount

\* The scenario of C17: FOB 1000.00, freight 150.00, insurance 50.00, duty 6%,
\* VAT 16% + 2% enabled, excise and perception disabled, no trade remedy and
\* no special fee.
IsUsdScenario ==
  /\ variant = "usd" /\ result # Pending
  /\ input.cif = Absent /\ input.fob = Some(1000000)
  /\ input.freight = Some(150000) /\ input.insurance = Some(50000)
  /\ prof = [adValoremRate |-> 600, igvRate |-> 1600, ipmRate |-> 200]
  /\ overrides.igvEnabled /\ ~overrides.iscEnabled /\ ~overrides.perceptionEnabled
  /\ overrides.antidumpingUsd \in {Absent, Some(0)}
  /\ overrides.countervailingUsd \in {Absent, Some(0)}
  /\ overrides.sdaUsd \in {Absent, Some(0)}

\* C17: on that scenario the USD-only simulate returns customs value base
\* 1200.00, duty 72.00, excise 0, VAT base 1272.00, VAT 203.52 + 25.44 =
\* 228.96, perception 0, customs debt 300.96 and amount payable 300.96.
C17_UsdScenario ==
  IsUsdScenario =>
    /\ result.status = "ok"
    /\ result.cif_pen = 120000
    /\ result.arancel.amount = 7200
    /\ result.isc.total = 0
    /\ result.igv.base = 127200
    /\ result.igv.igv16 = 20352 /\ result.igv.ipm2 = 2544 /\ result.igv.total = 22896
    /\ result.percepcion.amount = 0
    /\ result.trade_remedies.total = 0 /\ result.sda.amount = 0
    /\ result.deuda_aduanera = 30096
    /\ result.pago_en_frontera = 30096

\* C17 witness: the scenario has been simulated, for a used good of a normal
\* importer (whose perception, were it enabled, would be 5%).
C17_Witness ==
  /\ IsUsdScenario
  /\ input.isUsed /\ input.importerProfile = "normal"
  /\ result.status = "ok" /\ result.deuda_aduanera = 30096

\* A call of loadRuleProfile has returned or thrown.
Loaded == variant = "load" /\ result # Pending

\* The tariff rows of the code asked for, by digits.
TariffRows == {t \in store.tariffs : HsNorm(t.hs10) = HsNorm(input.hs10)}

\* C18: loadRuleProfile fails with NotFound when the tariff code is absent
\* from the store, whatever the other tables hold, and with MissingConfig when
\* the tariff exists but there is no administrative-fee row for the year of
\* the as-of date; a missing preferential, excise, VAT-exemption, trade-remedy
\* or permit row is never an error (null / false / empty list); a failure
\* carries no partial profile.
C18_LoadFailures ==
  Loaded =>
    LET hasTariff == TariffRows # {}
        hasFees == \E a \in store.admin_fees : a.year = UTCFullYear(input.today)
    IN /\ ~hasTariff => result = NotFound
       /\ (hasTariff /\ ~hasFees) => result = MissingConfig
       /\ (hasTariff /\ hasFees) =>
            /\ result.status = "ok"
            /\ \A t \in TariffRows :
                 /\ (\A r \in store.fta_rates :
                       ~(r.tariff_id = t.id /\ r.country = input.originCountry))
                      => result.profile.ftaRate = Absent
                 /\ (\A r \in store.isc_rules : r.tariff_id # t.id)
                      => result.profile.iscRule = Absent
                 /\ (\A r \in store.vat_exempt : r.tariff_id # t.id)
                      => result.profile.vatExempt = FALSE
                 /\ (\A r \in store.trade_remedies :
                       ~(r.tariff_id = t.id /\ r.country = input.originCountry))
                      => result.profile.tradeRemedies = <<>>
                 /\ (\A r \in store.permits_map : r.tariff_id # t.id)
                      => result.profile.permits = <<>>
       /\ result.status = "error" => DOMAIN result = {"status", "error"}

\* C18 witness: the tariff exists, every optional table has rows for it and
\* the administrative fees of another year are configured, but not those of
\* the as-of year: MissingConfig.
C18_Witness ==
  /\ Loaded
  /\ TariffRows # {}
  /\ store.fta_rates # {} /\ store.isc_rules # {} /\ store.permits_map # {}
  /\ store.admin_fees # {}
  /\ \A a \in store.admin_fees : a.year # UTCFullYear(input.today)
  /\ result = MissingConfig

\* The rows of `rows` whose validity window [valid_from, valid_to] covers d.
Covering(rows, d) ==
  {r \in rows : DateLeq(r.valid_from, d) /\ (IsPresent(r.valid_to) => DateLeq(d, r.valid_to[1]))}

\* The rows of `rows` with the most recent effective-start date.
MostRecent(rows) == {x \in rows : \A y \in rows : DateLeq(y.valid_from, x.valid_from)}

\* C19: the preferential-rate lookup and the excise-rule lookup of
\* loadRuleProfile each return the row with the most recent effective-start
\* date among the rows (of the tariff, and of the origin country for the
\* preference) whose validity window covers the as-of date passed by the
\* caller; a row that starts after the as-of date or ends before it is never
\* selected.
C19_WindowCoversAsOfDate ==
  (Loaded /\ result.status = "ok") =>
    \E t \in TariffRows :
      LET ftaRows == Covering({r \in store.fta_rates :
                                 r.tariff_id = t.id /\ r.country = input.originCountry},
                              input.today)
          iscRows == Covering({r \in store.isc_rules : r.tariff_id = t.id}, input.today)
      IN /\ result.profile.tariffId = t.id
         /\ IF ftaRows = {} THEN result.profile.ftaRate = Absent
            ELSE \E r \in MostRecent(ftaRows) : result.profile.ftaRate = Some(r.rate)
         /\ IF iscRows = {} THEN result.profile.iscRule = Absent
            ELSE \E r \in MostRecent(iscRows) :
                   result.profile.iscRule =
                     Some([system |-> r.system, adValRate |-> r.ad_valorem_rate,
                           specificAmount |-> r.specific_amount, params |-> r.params])

\* A call of obtenerAnalisisRentabilidad for a case of the requester has
\* returned or thrown.
AnalysedOwnCase ==
  /\ variant = "analisis" /\ result # Pending
  /\ validarCasoExiste(input.casoId, input.userId, store)

\* The expense rows of the case asked for whose classification is `label`.
ExpensesOf(label) ==
  LET Test(g) == g.caso_estudio_id = input.casoId
                   /\ ToLowerCase(g.clasificacion_nombre) = label
  IN SelectSeq(store.gastos, Test)

\* C20: for every set of import, sale and expense rows of the study case,
\* obtenerAnalisisRentabilidad computes gross profit = total sales - sum over
\* the imports of (customs value + customs debt), operating profit = gross
\* profit - total of the operating expenses, and net profit = operating profit
\* - (administrative + selling + financial expense totals).
C20_ProfitFigures ==
  AnalysedOwnCase =>
    LET sales == VentasTotales(RowsOfCase(store.exportaciones, input.casoId))
        cost == CostoAdquisicion(RowsOfCase(store.importaciones, input.casoId))
        operating == sumarGastos(ExpensesOf("operativo"))
        others == sumarGastos(ExpensesOf("administrativo"))
                    + sumarGastos(ExpensesOf("ventas"))
                    + sumarGastos(ExpensesOf("financiero"))
    IN /\ result.status = "ok"
       /\ result.utilidad_bruta.utilidad_bruta = ToFixed2(sales - cost)
       /\ result.utilidad_operativa.utilidad_operativa =
            ToFixed2(UsdUnits(result.utilidad_bruta.utilidad_bruta) - operating)
       /\ result.utilidad_neta.utilidad_neta =
            ToFixed2(UsdUnits(result.utilidad_operativa.utilidad_operativa) - others)

\* obtenerAnalisisRentabilidad has returned the analysis of a case of the
\* requester.
AnalysisReturned == AnalysedOwnCase /\ result.status = "ok"

\* profit / total sales x 100 in hundredths of a percent, 0 without sales;
\* the profit in units, the sales in cents.
MarginOnSales(profit, sales) ==
  IF sales > 0 THEN Percentage(profit, UsdUnits(sales)) ELSE 0

\* The gross and the operating margin are the profit over the total sales.
GrossAndOperatingMarginOnSales ==
  AnalysisReturned =>
    LET sales == VentasTotales(RowsOfCase(store.exportaciones, input.casoId))
        cost == CostoAdquisicion(RowsOfCase(store.importaciones, input.casoId))
        bruta == result.utilidad_bruta
        operativa == result.utilidad_operativa
    IN /\ bruta.margen_bruto_porcentaje =
            (IF sales > 0 THEN Percentage(sales - cost, sales) ELSE 0)
       /\ operativa.margen_operativo_porcentaje =
            MarginOnSales(UsdUnits(bruta.utilidad_bruta)
                            - sumarGastos(ExpensesOf("operativo")),
                          bruta.ventas_totales)

\* The net margin is the net profit over the total sales.
NetMarginOnSales ==
  AnalysisReturned =>
    LET others == sumarGastos(ExpensesOf("administrativo"))
                    + sumarGastos(ExpensesOf("ventas"))
                    + sumarGastos(ExpensesOf("financiero"))
    IN result.utilidad_neta.margen_neto_porcentaje =
         MarginOnSales(UsdUnits(result.utilidad_operativa.utilidad_operativa) - others,
                       result.utilidad_bruta.ventas_totales)

\* C21: each of the three margin percentages obtenerAnalisisRentabilidad
\* returns (gross, operating, net) is the corresponding profit divided by the
\* total sales of the case, times 100, and each is 0 whenever the total sales
\* are 0, whatever the imports and the expenses are.
C21_MarginsOnTotalSales == GrossAndOperatingMarginOnSales /\ NetMarginOnSales

\* The case asked for is not a case of the requester: it is the case of
\* another user, or no case at all.
NotOwnCase ==
  ~\E c \in store.casos_de_estudio :
      c.id = input.casoId /\ c.user_id = input.userId

\* Some row of the store belongs to the case asked for.
CaseHasRows ==
  \/ \E i \in DOMAIN store.importaciones :
       store.importaciones[i].caso_estudio_id = input.casoId
  \/ \E i \in DOMAIN store.exportaciones :
       store.exportaciones[i].caso_estudio_id = input.casoId
  \/ \E i \in DOMAIN store.gastos : store.gastos[i].caso_estudio_id = input.casoId

\* C22: obtenerAnalisisRentabilidad fails with the same NotFoundOrUnauthorized
\* error for a case owned by another user as for a case that does not exist,
\* and in both situations it has queried nothing but the case table: no
\* import, sale or expense row of the case was read.
C22_SameErrorBeforeReading ==
  (variant = "analisis" /\ result # Pending /\ NotOwnCase) =>
    /\ result = NotFoundOrUnauthorized
    /\ queries = <<"casos_de_estudio">>

\* The case of another user, with rows, was asked for and the call has failed.
C22_Witness ==
  /\ variant = "analisis" /\ result # Pending /\ NotOwnCase
  /\ \E c \in store.casos_de_estudio : c.id = input.casoId
  /\ CaseHasRows

\* The four fixed labels of the expense buckets.
BucketLabels == {"operativo", "administrativo", "ventas", "financiero"}

\* The classification name matches none of the four labels, whatever its case.
Unmatched(g) == ToLowerCase(g.clasificacion_nombre) \notin BucketLabels

\* The store without the expense rows that match no label.
StoreOfMatched ==
  LET Matched(g) == ~Unmatched(g)
  IN [store EXCEPT !.gastos = SelectSeq(store.gastos, Matched)]

\* C23: every expense row is in at most one of the four buckets, the one
\* whose label equals its classification name compared case-insensitively; a
\* row whose name matches no label is in no bucket, and the analysis (expense
\* totals, profit figures, currency totals) is what it would be without it.
C23_ExpenseBuckets ==
  (variant = "analisis" /\ result # Pending) =>
    LET buckets == obtenerGastosPorClasificacion(input.casoId, store)
    IN /\ buckets.operativos = ExpensesOf("operativo")
       /\ buckets.administrativos = ExpensesOf("administrativo")
       /\ buckets.ventas = ExpensesOf("ventas")
       /\ buckets.financieros = ExpensesOf("financiero")
       /\ result = obtenerAnalisisRentabilidad(input.casoId, input.userId, StoreOfMatched)

\* An analysis was returned for a case with an unmatched expense row and a
\* row whose name differs from its label by case only.
C23_Witness ==
  /\ AnalysisReturned
  /\ \E i \in DOMAIN store.gastos :
       store.gastos[i].caso_estudio_id = input.casoId /\ Unmatched(store.gastos[i])
  /\ \E i \in DOMAIN store.gastos :
       /\ store.gastos[i].caso_estudio_id = input.casoId
       /\ store.gastos[i].clasificacion_nombre \notin BucketLabels
       /\ ~Unmatched(store.gastos[i])

\* An amount of c cents recorded in `moneda`, in USD: divided by 3.75 when
\* recorded in PEN, unchanged when recorded in USD.
InUsd(c, moneda) == IF moneda = "USD" THEN UsdUnits(c) ELSE PenToUsdUnits(c)

\* The sum of the `campo` of the rows, each normalised to USD.
RECURSIVE TotalInUsd(_, _)
TotalInUsd(rows, campo) ==
  IF rows = <<>> THEN 0
  ELSE InUsd(rows[1][campo], rows[1].moneda) + TotalInUsd(Tail(rows), campo)

\* The sales and the expenses enter the figures normalised to USD.
SalesAndExpensesInUsd ==
  AnalysisReturned =>
    /\ result.utilidad_bruta.ventas_totales =
         ToFixed2(TotalInUsd(RowsOfCase(store.exportaciones, input.casoId), "valor_venta"))
    /\ result.utilidad_operativa.gastos_operativos =
         ToFixed2(TotalInUsd(ExpensesOf("operativo"), "monto"))
    /\ result.utilidad_neta.gastos_administrativos =
         ToFixed2(TotalInUsd(ExpensesOf("administrativo"), "monto"))
    /\ result.utilidad_neta.gastos_ventas =
         ToFixed2(TotalInUsd(ExpensesOf("ventas"), "monto"))
    /\ result.utilidad_neta.gastos_financieros =
         ToFixed2(TotalInUsd(ExpensesOf("financiero"), "monto"))

\* The imports (customs value and customs debt) enter the figures normalised
\* to USD.
ImportsInUsd ==
  AnalysisReturned =>
    LET importaciones == RowsOfCase(store.importaciones, input.casoId)
    IN result.utilidad_bruta.costo_adquisicion =
         ToFixed2(TotalInUsd(importaciones, "valor_cif")
                    + TotalInUsd(importaciones, "dta_total"))

\* C24: every amount that enters the profit figures is normalised to USD with
\* the constant 3.75: an amount recorded in PEN is divided by 3.75, one
\* recorded in USD is used unchanged, for the sale rows, for the expense rows
\* of the four categories and for the import rows (customs value and debt).
C24_NormalisedToUsd == SalesAndExpensesInUsd /\ ImportsInUsd

\* The cases of the requester in the store.
OwnCases == {c \in store.casos_de_estudio : c.user_id = input.userId}

\* The row of a case is the row of its analysis, or the zero row with the
\* error marker when its analysis throws.
RowReportsAnalysis(row) ==
  LET analysis == obtenerAnalisisRentabilidad(row.caso_id, input.userId, store)
  IN IF analysis.status = "ok"
       THEN /\ row.error = Absent
            /\ row.margen_neto = analysis.utilidad_neta.margen_neto_porcentaje
            /\ row.utilidad_neta = analysis.utilidad_neta.utilidad_neta
            /\ row.ventas_totales = analysis.utilidad_bruta.ventas_totales
     ELSE /\ row.error # Absent
          /\ row.margen_neto = 0 /\ row.utilidad_neta = 0 /\ row.ventas_totales = 0

\* C25: obtenerComparativo never aborts because the analysis of one case
\* fails: it returns one row per case fetched (the cases of the requester, at
\* most `limite`), a case whose analysis throws is reported with net margin
\* 0, net profit 0, total sales 0 and an error marker, the rows of the other
\* cases are those of their analyses, and the best, worst and average net
\* margin are the maximum, the minimum and the mean (to the nearest hundredth)
\* over all the rows returned.
C25_ComparativoIsolatesFailures ==
  (variant = "comparativo" /\ result # Pending) =>
    LET casos == result.casos
        n == Len(casos)
        stats == result.estadisticas
    IN /\ result.status = "ok"
       /\ n = (IF Cardinality(OwnCases) < input.limite
                 THEN Cardinality(OwnCases) ELSE input.limite)
       /\ result.total_casos = n
       /\ \A i, j \in 1..n : i # j => casos[i].caso_id # casos[j].caso_id
       /\ \A i \in 1..n :
            /\ \E c \in OwnCases : c.id = casos[i].caso_id
            /\ RowReportsAnalysis(casos[i])
       /\ n > 0 =>
            /\ \E i \in 1..n : stats.mejor_margen = casos[i].margen_neto
            /\ \E i \in 1..n : stats.peor_margen = casos[i].margen_neto
            /\ \A i \in 1..n :
                 /\ casos[i].margen_neto <= stats.mejor_margen
                 /\ casos[i].margen_neto >= stats.peor_margen
            /\ LET sum == SumOf([i \in 1..n |-> casos[i].margen_neto])
                   d == 2 * (n * stats.promedio_margen - sum)
               IN -n <= d /\ d <= n

\* A comparison was returned with a failed case between two cases whose
\* analyses succeeded with different net margins.
C25_Witness ==
  /\ variant = "comparativo" /\ result # Pending
  /\ Len(result.casos) = 3
  /\ \E i, j, k \in 1..3 :
       /\ result.casos[i].error # Absent
       /\ result.casos[j].error = Absent /\ result.casos[k].error = Absent
       /\ result.casos[j].margen_neto > 0
       /\ result.casos[j].margen_neto # result.casos[k].margen_neto

\* crearImportacion has returned or thrown.
Created == variant = "crear" /\ result # Pending

\* C26: for every import record computed by calcularImportacion and stored
\* by crearImportacion, the stored dta_total is the customs debt of the
\* simulation invariant: duty + excise + VAT components (IGV, IPM) + the
\* antidumping, countervailing and special-fee amounts entered for the
\* import, the perception excluded.
C26_StoredCustomsDebt ==
  Created =>
    \A i \in DOMAIN store.importaciones :
      LET row == store.importaciones[i]
      IN row.dta_total =
           row.monto_ad_valorem + row.monto_isc + row.monto_igv + row.monto_ipm
             + (row.antidumping_ingresado + row.compensatorio_ingresado
                  + row.sda_ingresado) * ImpUnit

\* The tax lines stored for an import row.
LinesOf(id) ==
  LET Of(t) == t.importacion_id = id IN SelectSeq(store.importacion_tributos, Of)

\* C28: crearImportacion is all-or-nothing with respect to storage: after it
\* returns or throws (an insert of a tax line failing midway included), either
\* no import row is stored, or the import row is stored with every tax line
\* of the calculated list.
C28_AllOrNothing ==
  Created =>
    \/ store.importaciones = <<>>
    \/ /\ result.status = "ok"
       /\ \A i \in DOMAIN store.importaciones :
            Len(LinesOf(store.importaciones[i].id)) = Len(result.tributos)

\* The override fields of the form as they were supplied: a field that is
\* present, 0 included, is an override; an absent field is none.
SuppliedOverrides ==
  [adValoremRate |-> input.override_adValoremRate,
   antidumpingUsd |-> input.override_antidumpingUsd,
   countervailingUsd |-> input.override_countervailingUsd,
   perceptionRate |-> input.override_perceptionRate,
   sdaUsd |-> input.override_sdaUsd]

AnsweredOnce ==
  /\ Len(procs[1].responses) = 1
  /\ procs[1].responses[1].status \in {200, 400, 401, 404, 500}

\* C29: every request handled by AnalisisController.obtenerAnalisisCompleto
\* eventually receives exactly one response (200 on success, an error
\* response when validation fails, the case is not found or not the
\* requester's, or the service throws); no request is left without one.
C29_EveryRequestAnswered ==
  (procs[1].handler = "obtenerAnalisisCompleto") ~> AnsweredOnce

\* The refresh requests that presented the token t and were answered 200.
SuccessfulRefreshes(t) ==
  {i \in DOMAIN procs :
     /\ procs[i].kind = "refresh" /\ procs[i].token = t
     /\ procs[i].responses # <<>> /\ procs[i].responses[1].status = 200}

\* The logout requests that presented the token t and were answered.
Logouts(t) ==
  {i \in DOMAIN procs :
     procs[i].kind = "logout" /\ procs[i].token = t /\ procs[i].responses # <<>>}

\* A token value yields at most one successful refresh.
AtMostOneRefreshPerToken ==
  \A i \in DOMAIN procs : Cardinality(SuccessfulRefreshes(procs[i].token)) <= 1

\* A refresh that arrives after a successful refresh or a logout with the
\* same token is answered 401.
UsedTokenIsRefused ==
  \A i \in DOMAIN procs :
    (/\ procs[i].kind = "refresh" /\ procs[i].responses # <<>>
     /\ procs[i].after \cap (SuccessfulRefreshes(procs[i].token)
                               \cup Logouts(procs[i].token)) # {})
      => procs[i].responses[1].status = 401

\* Each session that is not revoked has exactly one valid refresh token among
\* the tokens generated.
OneValidTokenPerSession ==
  \A id \in DOMAIN store.auth_sessions :
    ~store.auth_sessions[id].revoked =>
      Cardinality({t \in 1..store.generated :
                     sha256(t) = store.auth_sessions[id].refresh_token_hash}) = 1

\* C30: a refresh token is single-use under rotation: across every
\* interleaving of /refresh and /logout requests a token value yields at most
\* one successful refresh, after a successful refresh or a logout with it
\* every later refresh presenting it is answered 401, and each non-revoked
\* session has exactly one refresh token that is currently valid.
C30_RefreshTokenSingleUse ==
  variant = "auth" =>
    AtMostOneRefreshPerToken /\ UsedTokenIsRefused /\ OneValidTokenPerSession

====
